---- MODULE Spec2Model ----
(***************************************************************************)
(* Caching and output-normalisation layer of the yfinance REST facade:     *)
(* CacheService (app/services/cache_service.py), the cache decorators      *)
(* (app/core/cache.py, app/utils/decorators.py), the endpoint factories    *)
(* (app/api/routes/v1/yfinance/base.py) and the data manager               *)
(* (app/utils/yfinance_data_manager.py).                                   *)
(***************************************************************************)
EXTENDS Integers, Sequences, FiniteSets, TLC

(***************************************************************************)
(* Bounds of the model.                                                    *)
(***************************************************************************)
MaxLen == 2
MaxDepth == 2
TicksPerSecond == 2     \* clock resolution: ticks in one second
EdgeSeconds == 12       \* clock readings taken this close to a UTC midnight
MaxDays == 2            \* days the clock covers
NumCallers == 2         \* concurrent callers
MaxJobs == 2            \* calls started in one behaviour
MaxTicks == 1           \* clock advances in one behaviour
MaxFlips == 1           \* changes of the condition of the Redis server
NumTasks == 2           \* scheduled tasks
MaxRetries == 1         \* largest max_retries of a task
MaxRuns == 1            \* times a task becomes due, all tasks together
NumWorkers == 2         \* worker processes that share the store
MaxRequests == 5        \* requests of the client in one behaviour
MaxInvocations == 3     \* tracked invocations in one behaviour

(***************************************************************************)
(* Program constants.                                                      *)
(***************************************************************************)
CACHE_30_MINUTES == 30 * 60
CACHE_1_HOUR == 60 * 60
CACHE_1_DAY == 24 * 60 * 60
CACHE_1_WEEK == 7 * 24 * 60 * 60
CACHE_1_MONTH == 30 * 24 * 60 * 60
CACHE_3_MONTHS == 90 * 24 * 60 * 60

SecondsPerDay == 24 * 60 * 60
DayTicks == SecondsPerDay * TicksPerSecond

(***************************************************************************)
(* Python values.  A scalar is [k, v], a sequence-like container is        *)
(* [k, items], a mapping is [k, items] with items a sequence of            *)
(* [key, val] pairs in insertion order, a DataFrame is [k, index, rows].   *)
(***************************************************************************)
Scalar(kind, text) == [k |-> kind, v |-> text]
None == [k |-> "none"]
PyList(s) == [k |-> "list", items |-> s]
PySet(s) == [k |-> "set", items |-> s]
NdArray(s) == [k |-> "ndarray", items |-> s]
PyDict(s) == [k |-> "dict", items |-> s]
Series(s) == [k |-> "series", items |-> s]
DataFrame(ix, r) == [k |-> "df", index |-> ix, rows |-> r]
EmptyList == PyList(<<>>)

NonFinite == {"nan", "inf", "-inf"}

\* str(x) of a mapping key, an index label or a column name
PyStr(x) ==
    IF x.k = "ts" THEN Scalar("str", "2024-01-02 00:00:00")
    ELSE Scalar("str", x.v)

\* d[key] = val on a dict kept as a sequence of pairs in insertion order
DictPut(d, key, val) ==
    IF \E i \in 1..Len(d) : d[i].key = key
    THEN [i \in 1..Len(d) |-> IF d[i].key = key THEN [key |-> key, val |-> val] ELSE d[i]]
    ELSE Append(d, [key |-> key, val |-> val])

RECURSIVE DictOf(_)
DictOf(pairs) ==
    IF pairs = <<>> THEN <<>>
    ELSE LET n == Len(pairs)
         IN DictPut(DictOf(SubSeq(pairs, 1, n - 1)), pairs[n].key, pairs[n].val)

\* DataFrame.reset_index(): the index becomes the first column
reset_index(rows) ==
    [i \in 1..Len(rows) |->
        <<[key |-> Scalar("str", "index"), val |-> rows[i].idx]>> \o rows[i].cells]

df_copy(rows) == [i \in 1..Len(rows) |-> rows[i].cells]

\* numpy scalar .item(): the native value, whatever it is
item(data) ==
    CASE data.k = "npfloat" -> Scalar("float", data.v)
      [] data.k = "npint" -> Scalar("int", data.v)
      [] data.k = "npbool" -> Scalar("bool", data.v)

RECURSIVE process_yfinance_output(_)
process_yfinance_output(data) ==
    CASE data.k = "none" -> None
      [] data.k = "df" ->
            IF data.rows = <<>> THEN EmptyList
            ELSE LET df == IF data.index # "range" THEN reset_index(data.rows)
                           ELSE df_copy(data.rows)
                 IN PyList([i \in 1..Len(df) |->
                        PyDict(DictOf([j \in 1..Len(df[i]) |->
                            [key |-> PyStr(df[i][j].key),
                             val |-> process_yfinance_output(df[i][j].val)]]))])
      [] data.k = "series" ->
            PyDict(DictOf([j \in 1..Len(data.items) |->
                [key |-> PyStr(data.items[j].key),
                 val |-> process_yfinance_output(data.items[j].val)]]))
      [] data.k = "ts" -> Scalar("str", "2024-01-02T00:00:00")
      [] data.k = "date" -> Scalar("str", "2024-01-02")
      [] data.k \in {"npint", "npfloat", "npbool"} -> item(data)
      [] data.k = "float" /\ data.v \in NonFinite -> None
      [] data.k = "ndarray" ->
            PyList([i \in 1..Len(data.items) |-> process_yfinance_output(data.items[i])])
      [] data.k = "list" ->
            PyList([i \in 1..Len(data.items) |-> process_yfinance_output(data.items[i])])
      [] data.k = "dict" ->
            PyDict(DictOf([j \in 1..Len(data.items) |->
                [key |-> PyStr(data.items[j].key),
                 val |-> process_yfinance_output(data.items[j].val)]]))
      [] data.k = "set" ->
            PyList([i \in 1..Len(data.items) |-> process_yfinance_output(data.items[i])])
      [] OTHER -> data

(***************************************************************************)
(* Inputs of the data manager, nested up to MaxDepth, containers of up to  *)
(* MaxLen elements.                                                        *)
(***************************************************************************)
SeqsUpTo(S, n) == UNION {[1..m -> S] : m \in 0..n}

NativeLeaves ==
    {None, Scalar("int", "5"), Scalar("bool", "True"), Scalar("str", "AAPL"),
     Scalar("ts", "2024-01-02T00:00:00"), Scalar("date", "2024-01-02")}
    \cup {Scalar("float", t) : t \in {"1.5"} \cup NonFinite}
NumpyLeaves ==
    {Scalar("npint", "5"), Scalar("npbool", "True")}
    \cup {Scalar("npfloat", t) : t \in {"1.5", "nan", "inf"}}
Leaves == NativeLeaves \cup NumpyLeaves

Keys == {Scalar("str", "1"), Scalar("int", "1")}
PairsOf(K, S) == {[key |-> x, val |-> y] : x \in K, y \in S}

Frames(S, n) ==
    {DataFrame("range",
        [i \in 1..Len(col) |->
            [idx |-> Scalar("int", "0"),
             cells |-> <<[key |-> Scalar("str", "Close"), val |-> col[i]]>>]])
        : col \in SeqsUpTo(S, n)}
    \cup
    {DataFrame("Date",
        [i \in 1..Len(col) |->
            [idx |-> Scalar("ts", "2024-01-02T00:00:00"),
             cells |-> <<[key |-> Scalar("str", "Close"), val |-> col[i]]>>]])
        : col \in SeqsUpTo(S, n)}

\* the leaves and the containers of up to n leaves
Flat(n) ==
    Leaves
    \cup {PyList(s) : s \in SeqsUpTo(Leaves, n)}
    \cup {PySet(s) : s \in SeqsUpTo(Leaves, n)}
    \cup {NdArray(s) : s \in SeqsUpTo(NumpyLeaves, n)}
    \cup {PyDict(s) : s \in SeqsUpTo(PairsOf(Keys, Leaves), n)}
    \cup {Series(s) : s \in SeqsUpTo(PairsOf(Keys, Leaves), n)}
    \cup Frames(Leaves, n)

RECURSIVE Nested(_)
Nested(d) ==
    IF d <= 1 THEN Flat(MaxLen)
    ELSE LET S == Nested(d - 1)
         IN S \cup {PyList(<<x>>) : x \in S}
              \cup {PyDict(<<[key |-> Scalar("str", "info"), val |-> x]>>) : x \in S}

\* the inputs process_yfinance_output is applied to
SanInputs(depth) == Nested(depth)

\* a float NaN or +/-Infinity, native or boxed, anywhere in a value
RECURSIVE HasNonFinite(_)
HasNonFinite(x) ==
    CASE x.k \in {"float", "npfloat"} -> x.v \in NonFinite
      [] x.k \in {"list", "set", "ndarray"} ->
            \E i \in 1..Len(x.items) : HasNonFinite(x.items[i])
      [] x.k \in {"dict", "series"} ->
            \E i \in 1..Len(x.items) : HasNonFinite(x.items[i].val)
      [] x.k = "df" ->
            \E i \in 1..Len(x.rows) : \E j \in 1..Len(x.rows[i].cells) :
                HasNonFinite(x.rows[i].cells[j].val)
      [] OTHER -> FALSE

(***************************************************************************)
(* Outcome of a call: a returned value or a raised exception.              *)
(***************************************************************************)
Return(x) == [kind |-> "return", val |-> x]
Raise(type, text) == [kind |-> "raise", type |-> type, msg |-> text]

\* TickerNotFoundError(ticker) and YFinanceError(detail); msg is str(e)
TickerNotFoundError(ticker) == Raise("TickerNotFoundError", ticker)
YFinanceError(detail) == Raise("YFinanceError", detail)

(***************************************************************************)
(* clean_yfinance_data: the sanitize-and-guard transform.                  *)
(***************************************************************************)
Has(kwargs, name) == name \in DOMAIN kwargs

_extract_identifier(kwargs) ==
    IF Has(kwargs, "ticker") THEN kwargs["ticker"]
    ELSE IF Has(kwargs, "market") THEN kwargs["market"]
    ELSE IF Has(kwargs, "sector") THEN kwargs["sector"]
    ELSE IF Has(kwargs, "industry") THEN kwargs["industry"]
    ELSE IF Has(kwargs, "query") THEN kwargs["query"]
    ELSE "None"

\* truth value of an identifier: None and the empty string are false
Truthy(identifier) == identifier \notin {"None", ""}

_is_empty_result(result) ==
    IF result.k = "none" THEN TRUE
    ELSE IF result.k = "df" /\ result.rows = <<>> THEN TRUE
    ELSE IF result.k = "series" /\ result.items = <<>> THEN TRUE
    ELSE IF result.k \in {"list", "dict"} /\ result.items = <<>> THEN TRUE
    ELSE IF result.k = "str" /\ result.v = "" THEN TRUE
    ELSE FALSE

\* "No data found" in str(e)
NoDataFoundIn(text) == text = "No data found for symbol"

\* clean_yfinance_data without its "except TickerNotFoundError: raise" clause
clean_yfinance_data_no_reraise(kwargs, called) ==
    LET identifier == _extract_identifier(kwargs)
    IN IF called.kind = "return"
       THEN IF _is_empty_result(called.val)
            THEN IF Truthy(identifier) THEN TickerNotFoundError(identifier)
                 ELSE Return(EmptyList)
            ELSE Return(process_yfinance_output(called.val))
       ELSE IF NoDataFoundIn(called.msg) /\ Truthy(identifier)
            THEN TickerNotFoundError(identifier)
       ELSE YFinanceError(called.msg)

\* sync_wrapper and async_wrapper of clean_yfinance_data run the same steps
\* on the outcome of func(*args, **kwargs)
clean_yfinance_data(kwargs, called) ==
    LET identifier == _extract_identifier(kwargs)
    IN IF called.kind = "return"
       THEN IF _is_empty_result(called.val)
            THEN IF Truthy(identifier) THEN TickerNotFoundError(identifier)
                 ELSE Return(EmptyList)
            ELSE Return(process_yfinance_output(called.val))
       ELSE IF called.type = "TickerNotFoundError" THEN called
       ELSE IF NoDataFoundIn(called.msg) /\ Truthy(identifier)
            THEN TickerNotFoundError(identifier)
       ELSE YFinanceError(called.msg)

IdentifierNames == {"ticker", "market", "sector", "industry", "query"}
KwargNames == IdentifierNames \cup {"period"}
KwargValues == {"", "AAPL", "technology"}
KwargSets == UNION {[D -> KwargValues] : D \in SUBSET KwargNames}

EmptyResults ==
    {None, EmptyList, PyDict(<<>>), Scalar("str", ""), Series(<<>>),
     DataFrame("range", <<>>), DataFrame("Date", <<>>)}
FullResults ==
    {PyList(<<Scalar("npfloat", "1.5")>>), Scalar("str", "AAPL"), Scalar("float", "nan"),
     PySet(<<>>), NdArray(<<>>)}
FuncErrors ==
    {TickerNotFoundError("MSFT"), YFinanceError("rate limited"),
     Raise("Exception", "No data found for symbol"), Raise("ValueError", "bad period")}
FuncOutcomes == {Return(x) : x \in EmptyResults \cup FullResults} \cup FuncErrors

(***************************************************************************)
(* Expiration policy.  A clock reading (datetime.utcnow()) is a number of  *)
(* ticks since 00:00:00 UTC of day 0.                                      *)
(***************************************************************************)
Min(a, b) == IF a <= b THEN a ELSE b

\* now.date(), as a day number
DateOf(now) == now \div DayTicks

\* datetime.combine(now.date() + timedelta(days=1), time(0, 0))
MidnightAfter(now) == (DateOf(now) + 1) * DayTicks

\* calculate_seconds_until_midnight that rounds to the nearest second instead
calculate_seconds_until_midnight_rounding(now) ==
    (MidnightAfter(now) - now + TicksPerSecond \div 2) \div TicksPerSecond

\* int((midnight - now).total_seconds()): the fraction of a second is dropped
calculate_seconds_until_midnight(now) ==
    (MidnightAfter(now) - now) \div TicksPerSecond

\* expiration computed by async_wrapper / sync_wrapper of
\* CacheService.cache_decorator, which inline the computation
cache_decorator_expiration(expire, invalidate_at_midnight, now) ==
    IF invalidate_at_midnight
    THEN LET midnight == MidnightAfter(now)
             seconds_to_midnight == midnight - now    \* in ticks
         IN Min(expire, seconds_to_midnight \div TicksPerSecond)
    ELSE expire

\* expiration computed by async_wrapper / sync_wrapper of custom_cache
custom_cache_expiration(expire, invalidate_at_midnight, now) ==
    IF invalidate_at_midnight
    THEN Min(expire, calculate_seconds_until_midnight(now))
    ELSE expire

Expiration(decorator, expire, invalidate_at_midnight, now) ==
    IF decorator = "custom_cache"
    THEN custom_cache_expiration(expire, invalidate_at_midnight, now)
    ELSE cache_decorator_expiration(expire, invalidate_at_midnight, now)

BaseTtls ==
    {CACHE_30_MINUTES, CACHE_1_HOUR, CACHE_1_DAY, CACHE_1_WEEK, CACHE_1_MONTH,
     CACHE_3_MONTHS, 5}

\* clock readings within EdgeSeconds of a midnight, and at noon
ClockReadings ==
    {d * DayTicks + t : d \in 0..(MaxDays - 1), t \in 0..(EdgeSeconds * TicksPerSecond)}
    \cup {d * DayTicks - t : d \in 1..MaxDays, t \in 1..(EdgeSeconds * TicksPerSecond)}
    \cup {d * DayTicks + DayTicks \div 2 : d \in 0..(MaxDays - 1)}

Clock(day, hh, mm, ss) == (day * SecondsPerDay + hh * 3600 + mm * 60 + ss) * TicksPerSecond

(***************************************************************************)
(* Key generator.  A text is a sequence of tokens.                         *)
(***************************************************************************)
CACHE_PREFIX == <<"yfinance_api">>

RECURSIVE Join(_, _)
\* sep.join(parts)
Join(parts, sep) ==
    IF parts = <<>> THEN <<>>
    ELSE IF Len(parts) = 1 THEN parts[1]
    ELSE parts[1] \o sep \o Join(Tail(parts), sep)

\* str(x) of an argument value
Repr_str(x) ==
    IF x.k = "none" THEN <<"None">> ELSE <<x.v>>

\* repr(x) of an argument value: a string is quoted, an int, a bool and
\* None are not
Repr(x) ==
    IF x.k = "str" THEN <<"'", x.v, "'">>
    ELSE IF x.k = "none" THEN <<"None">>
    ELSE <<x.v>>

\* str(args) of the positional tuple
StrOfArgs(args) ==
    IF Len(args) = 1 THEN <<"(">> \o Repr(args[1]) \o <<",", ")">>
    ELSE <<"(">> \o Join([i \in 1..Len(args) |-> Repr(args[i])], <<", ">>) \o <<")">>

\* the keyword names in the order < puts these strings
SortedNames == <<"industry", "market", "period", "query", "sector", "ticker">>

\* a < b of two keyword names
NameLess(a, b) ==
    LET rank(n) == CHOOSE i \in 1..Len(SortedNames) : SortedNames[i] = n
    IN rank(a) < rank(b)

RECURSIVE Insert(_, _)
\* pair put at its place in a list of pairs that is in order; the names of
\* a call are distinct, so the pairs compare by name
Insert(pair, items) ==
    IF items = <<>> THEN <<pair>>
    ELSE IF NameLess(pair.key, items[1].key) THEN <<pair>> \o items
    ELSE <<items[1]>> \o Insert(pair, Tail(items))

RECURSIVE sorted(_)
\* sorted(kwargs.items()); kwargs is the sequence of the (name, value) pairs
\* of the call in the order the caller wrote them
sorted(items) ==
    IF items = <<>> THEN <<>> ELSE Insert(items[1], sorted(Tail(items)))

\* str(sorted_kwargs) of the list of pairs
StrOfItems(items) ==
    <<"[">>
    \o Join([i \in 1..Len(items) |->
                <<"(">> \o <<"'", items[i].key, "'">> \o <<", ">> \o Repr(items[i].val)
                \o <<")">>],
            <<", ">>)
    \o <<"]">>

\* hashlib.md5(key_str.encode()).hexdigest(), taken as an injective digest
md5(key_str) == <<"md5[">> \o key_str \o <<"]">>

\* the string generate_key hashes
KeyString(prefix, args, kwargs) ==
    LET key_parts ==
            <<prefix>>
            \o (IF args # <<>> THEN <<StrOfArgs(args)>> ELSE <<>>)
            \o (IF kwargs # <<>> THEN <<StrOfItems(sorted(kwargs))>> ELSE <<>>)
    IN Join(key_parts, <<":">>)

\* generate_key without sorted(): str(list(kwargs.items()))
generate_key_unsorted(prefix, args, kwargs) ==
    LET key_parts ==
            <<prefix>>
            \o (IF args # <<>> THEN <<StrOfArgs(args)>> ELSE <<>>)
            \o (IF kwargs # <<>> THEN <<StrOfItems(kwargs)>> ELSE <<>>)
        hashed == md5(Join(key_parts, <<":">>))
    IN CACHE_PREFIX \o <<":">> \o prefix \o <<":">> \o hashed

generate_key(prefix, args, kwargs) ==
    LET hashed == md5(KeyString(prefix, args, kwargs))
    IN CACHE_PREFIX \o <<":">> \o prefix \o <<":">> \o hashed

RECURSIVE ItemsOf(_)
\* the (name, value) pairs of a call whose keyword values are strings
ItemsOf(kwargs) ==
    IF DOMAIN kwargs = {} THEN <<>>
    ELSE LET n == CHOOSE m \in DOMAIN kwargs : TRUE
         IN <<[key |-> n, val |-> Scalar("str", kwargs[n])]>>
            \o ItemsOf([m \in DOMAIN kwargs \ {n} |-> kwargs[m]])

(***************************************************************************)
(* Decorated endpoints.  stack tells how the decorators are stacked:       *)
(* "factory" is the order market_endpoint, search_endpoint, sector_endpoint *)
(* and industry_endpoint build and return for a function declared without  *)
(* attribute_name (response_formatter(clean_yfinance_data(cache(           *)
(* error_handler(performance_tracker(func)))))); with attribute_name they  *)
(* return the undecorated implementation, which never touches the store);  *)
(* "history" is the order written on get_ticker_history and the other      *)
(* explicitly decorated routes (performance_tracker(error_handler(cache(   *)
(* clean_yfinance_data(response_formatter(func)))))); "implementation" is   *)
(* what ticker_endpoint and the other factories return when attribute_name *)
(* is given: the function that reads the attribute, with no decorator.     *)
(***************************************************************************)
Endpoints ==
    {[name |-> "get_market_data", stack |-> "factory",
      expire |-> CACHE_30_MINUTES, invalidate_at_midnight |-> FALSE],
     [name |-> "get_ticker_history", stack |-> "history",
      expire |-> CACHE_1_DAY, invalidate_at_midnight |-> TRUE],
     [name |-> "get_ticker_actions", stack |-> "implementation",
      expire |-> CACHE_1_DAY, invalidate_at_midnight |-> TRUE]}

CallKwargs == {[n \in {"ticker"} |-> t] : t \in {"AAPL"}}

KeyOf(ep, kwargs) == generate_key(<<ep.name>>, <<>>, ItemsOf(kwargs))

\* namespaces besides the qualified names of the endpoints: custom_cache
\* builds f"yfinance:{func_name}" or takes the namespace it is given, and
\* clear_namespace takes any string
CustomNamespaces ==
    {<<"yfinance">>, <<"yfinance", ":", "get_info">>, <<"yfinance", "_v2">>}
Namespaces == {<<ep.name>> : ep \in Endpoints} \cup CustomNamespaces

KeySpace ==
    {KeyOf(ep, kw) : ep \in Endpoints, kw \in CallKwargs}
    \cup {generate_key(ns, <<>>, ItemsOf(kw)) : ns \in CustomNamespaces, kw \in CallKwargs}

\* a value pickle cannot serialize
Generator == Scalar("generator", "<generator object>")
Picklable(x) == x # Generator

\* what the endpoint function itself does when called
EndpointOutcomes ==
    {Return(None), Return(EmptyList), Return(PyList(<<Scalar("npfloat", "1.5")>>)),
     Return(Generator), Raise("ValueError", "bad period")}

\* f"Error processing request: {str(e)}"
ErrorProcessingRequest(text) ==
    IF text = "bad period" THEN "Error processing request: bad period"
    ELSE "Error processing request: other"

\* error_handler wrappers
error_handler(called) ==
    IF called.kind = "return" THEN called
    ELSE IF called.type \in {"TickerNotFoundError", "YFinanceError"} THEN called
    ELSE YFinanceError(ErrorProcessingRequest(called.msg))

\* format_response(data, 'default', None)
format_response(data) ==
    LET d == IF data.k = "none" THEN EmptyList ELSE data
    IN IF d.k = "list" /\ Len(d.items) > 0
       THEN PyDict(<<[key |-> Scalar("str", "items"), val |-> d],
                     [key |-> Scalar("str", "count"), val |-> Scalar("int", "n")]>>)
       ELSE d

\* response_formatter wrappers
response_formatter(called) ==
    IF called.kind = "return" THEN Return(format_response(called.val)) ELSE called

\* the operation CacheService.cache_decorator wraps in each stacking, applied
\* to the outcome of the endpoint function
WrappedOperation(stack, kwargs, called) ==
    IF stack = "factory" THEN error_handler(called)
    ELSE IF stack = "implementation" THEN called
    ELSE clean_yfinance_data(kwargs, response_formatter(called))

(***************************************************************************)
(* Redis.  backend is the condition of the server: "up", "refused" (the    *)
(* client raises redis.ConnectionError) or "timeout" (redis.TimeoutError). *)
(* An entry holds the bytes, the deadline set by EXPIRE (NoExpiry after a  *)
(* plain SET) and, as history, the day the computation of its value began  *)
(* and which job wrote it.                                                 *)
(***************************************************************************)
Absent == [k |-> "absent"]
NoExpiry == -1

BackendError(backend) ==
    IF backend = "refused" THEN Raise("ConnectionError", "refused")
    ELSE Raise("TimeoutError", "timeout")

\* pickle.dumps / pickle.loads
dumps(x) == [k |-> "bytes", of |-> x]
loads(b) == b.of

\* an object pickle.dumps serializes and pickle.loads raises on, its class
\* being gone when the bytes are read
Stale == Scalar("stale", "<instance of a class that cannot be imported>")
Loadable(b) == b.of # Stale

Alive(st, key, now) ==
    /\ st[key] # Absent
    /\ (st[key].deadline = NoExpiry \/ now < st[key].deadline)

\* _redis_client.ping()
redis_ping(backend) == IF backend = "up" THEN Return(TRUE) ELSE BackendError(backend)

\* _redis_client.get(key): the bytes, or None
redis_get(backend, st, key, now) ==
    IF backend # "up" THEN BackendError(backend)
    ELSE IF Alive(st, key, now) THEN Return(st[key].bytes)
    ELSE Return(None)

\* CacheService.is_available: any exception of the ping means unavailable
is_available(client, backend) ==
    IF client = "None" THEN FALSE
    ELSE LET r == redis_ping(backend)
         IN IF r.kind = "raise" THEN FALSE ELSE r.val

\* get_command that takes a stored None for a missing key
get_command_none_is_miss(backend, st, key, now) ==
    LET r == redis_get(backend, st, key, now)
    IN IF r.kind = "raise" THEN [found |-> FALSE, value |-> None]
       ELSE IF r.val = None \/ ~Loadable(r.val) \/ loads(r.val) = None
            THEN [found |-> FALSE, value |-> None]
       ELSE [found |-> TRUE, value |-> loads(r.val)]

\* the part of CacheService.get after its availability check
get_command(backend, st, key, now) ==
    LET r == redis_get(backend, st, key, now)
    IN IF r.kind = "raise" THEN [found |-> FALSE, value |-> None]
       ELSE IF r.val = None THEN [found |-> FALSE, value |-> None]
       ELSE IF ~Loadable(r.val) THEN [found |-> FALSE, value |-> None]
       ELSE [found |-> TRUE, value |-> loads(r.val)]

\* redis.ConnectionError is what the except clauses of _initialize_redis and
\* setup_cache catch
CaughtAtConnect(exc) == exc.type = "ConnectionError"

(***************************************************************************)
(* State.                                                                  *)
(***************************************************************************)
VARIABLES
    step,               \* position of the pure-function harnesses
    arg,                \* input of the function under check
    res,                \* its result
    res2,               \* result of applying it to its own result
    clock,              \* UTC time, in ticks
    backend,            \* condition of the Redis server
    instance,           \* CacheService._instance is not None
    redis_client,       \* CacheService._redis_client
    core_redis_client,  \* app.core.cache._redis_client
    store,              \* the entries held by the Redis server
    proc,               \* the calls in progress, one per caller
    fresh,              \* per key, the last undisturbed miss-and-store
    target,             \* the endpoint the callers of this behaviour call
    budget,             \* jobs started, clock advances and backend changes
    metrics,            \* MetricsService._metrics.endpoint_metrics
    lock,               \* the thread that holds MetricsService._lock, or 0
    thread,             \* the calls of MetricsService in progress, one per thread
    invocations,        \* per endpoint name, the calls of record_endpoint_call made
    tasks,              \* the Task objects SchedulerService.schedule has created
    scheduler,          \* SchedulerService._running and the coroutine of _run
    limiter,            \* RateLimitMiddleware: the client's counter entry and requests
    tracking            \* APIMetrics.active_endpoints and the tracked invocations

pureVars == <<step, arg, res, res2>>
cacheVars == <<clock, backend, instance, redis_client, core_redis_client, store, proc,
               fresh, target, budget>>
metricsVars == <<metrics, lock, thread, invocations>>
schedVars == <<tasks, scheduler>>
limiterVars == <<limiter>>
trackVars == <<tracking>>
serviceVars == <<metricsVars, schedVars, limiterVars, trackVars>>
vars == <<step, arg, res, res2, clock, backend, instance, redis_client,
          core_redis_client, store, proc, fresh, target, budget, metrics, lock, thread,
          invocations, tasks, scheduler, limiter, tracking>>

Unset == [k |-> "unset"]
Callers == 1..NumCallers

NoOutcome == [kind |-> "none"]
NoKwargs == [none |-> ""]
NoKey == <<>>
NoEndpoint == [name |-> "", stack |-> "", expire |-> 0, invalidate_at_midnight |-> FALSE]
NoFresh == [id |-> 0, val |-> None, stored |-> FALSE, ttl |-> 0, deadline |-> 0]

IdleProc ==
    [pc |-> "idle", kind |-> "none", id |-> 0, ep |-> NoEndpoint, kwargs |-> NoKwargs,
     key |-> NoKey, value |-> None, expire |-> NoExpiry, nx |-> FALSE, ns |-> <<>>,
     keys |-> {}, isdirect |-> FALSE, began |-> 0, invoked |-> 0, inner |-> NoOutcome,
     failed |-> FALSE, follow |-> NoFresh, looked |-> FALSE, intime |-> FALSE,
     hit |-> FALSE, hitDay |-> 0, beganDay |-> 0, recorded |-> 0,
     ret |-> NoOutcome]

PyBool(b) == Scalar("bool", IF b THEN "True" ELSE "False")
PyInt(n) == [k |-> "int", n |-> n]
PyTuple(s) == [k |-> "tuple", items |-> s]

\* the clock starts less than a second before a UTC midnight and advances
\* by one tick or by the shortest TTL
StartClocks == {Clock(1, 0, 0, 0) - 1}
ClockSteps == {1, CACHE_30_MINUTES * TicksPerSecond}

InitCache ==
    /\ clock \in StartClocks
    /\ backend \in {"up", "refused", "timeout"}
    /\ instance = FALSE
    /\ redis_client = "None"
    /\ core_redis_client = "None"
    /\ store = [key \in KeySpace |-> Absent]
    /\ proc = [c \in Callers |-> IdleProc]
    /\ fresh = [key \in KeySpace |-> NoFresh]
    /\ target \in Endpoints
    /\ budget = [jobs |-> 0, ticks |-> 0, flips |-> 0]

IdleCache ==
    /\ clock = 0
    /\ backend = "up"
    /\ instance = FALSE
    /\ redis_client = "None"
    /\ core_redis_client = "None"
    /\ store = [key \in KeySpace |-> Absent]
    /\ proc = [c \in Callers |-> IdleProc]
    /\ fresh = [key \in KeySpace |-> NoFresh]
    /\ target = NoEndpoint
    /\ budget = [jobs |-> 0, ticks |-> 0, flips |-> 0]

\* MetricsService after its construction: no endpoint has an entry, the lock
\* is free
MetricNames == {"get_ticker_history", "get_market_data"}
NoMetrics == [present |-> FALSE, calls |-> 0, errors |-> 0]
IdleThread == [pc |-> "idle", kind |-> "none", name |-> "", error |-> FALSE, calls |-> 0,
               seen |-> 0, overlapped |-> FALSE]

IdleMetrics ==
    /\ metrics = [name \in MetricNames |-> NoMetrics]
    /\ lock = 0
    /\ thread = [t \in Callers |-> IdleThread]
    /\ invocations = [name \in MetricNames |-> 0]

\* a Task after Task.__init__, scheduled and not yet due; banned is not a
\* field of Task: it tells that disable_task or unschedule has returned True
\* for the task and enable_task has not since
TaskIds == 1..NumTasks
IdleTask == [present |-> TRUE, enabled |-> TRUE, running |-> FALSE, due |-> FALSE,
             runs |-> 0, failures |-> 0, errors |-> 0, max_retries |-> 0,
             banned |-> FALSE]

\* SchedulerService before start(): no runner.  task, retries and success
\* are the locals of the Task.run in progress; attempts counts its calls of
\* func, failures0 and errors0 keep the counters it found
IdleRunner == [running |-> FALSE, pc |-> "stopped", tasks_to_run |-> <<>>, task |-> 0,
               retries |-> 0, success |-> FALSE, attempts |-> 0, failures0 |-> 0,
               errors0 |-> 0]

IdleScheduler ==
    /\ tasks = [t \in TaskIds |-> IdleTask]
    /\ scheduler = IdleRunner

\* RateLimitMiddleware with no counter entry for the client and no request
\* in progress.  entry is the value stored under rate_limit:<client_ip>, 0
\* when there is none; forwarded and rejected count the client's requests
\* handed to call_next and refused since the entry was written first
Workers == 1..NumWorkers
IdleRequest == [pc |-> "idle", value |-> 0]
IdleLimiter ==
    limiter = [entry |-> 0, arrived |-> 0, forwarded |-> 0, rejected |-> 0,
               request |-> [w \in Workers |-> IdleRequest]]

\* APIMetrics() with an empty active_endpoints and no tracked invocation
IdleInvocation == [pc |-> "idle", name |-> ""]
IdleTracking ==
    tracking = [active_endpoints |-> {}, started |-> 0,
                invocation |-> [c \in Callers |-> IdleInvocation]]

IdleServices == IdleMetrics /\ IdleScheduler /\ IdleLimiter /\ IdleTracking

IdlePure ==
    /\ step = "idle"
    /\ arg = Unset
    /\ res = Unset
    /\ res2 = Unset
    /\ IdleServices

\* a finished job keeps its outcome and history, and drops its working values
\* (on the stack of get_ticker_history performance_tracker is the outermost
\* wrapper: its finally block records the call as the call ends)
Done(p, outcome) ==
    [p EXCEPT !.pc = "done", !.ret = outcome, !.value = None, !.expire = NoExpiry,
              !.nx = FALSE, !.keys = {}, !.began = 0,
              !.recorded = IF p.kind = "call" /\ p.ep.stack = "history" THEN @ + 1 ELSE @]

\* the stack of the factories has performance_tracker around func, inside
\* the cache: its finally block records the call as func ends
Tracked(p) ==
    IF p.ep.stack = "factory" THEN [p EXCEPT !.recorded = @ + 1] ELSE p

\* func(*args, **kwargs) is entered, on the cached or on the uncached path
Enter(p, isdirect, now) ==
    [p EXCEPT !.pc = "running", !.isdirect = isdirect, !.began = DateOf(now),
              !.invoked = @ + 1]

\* no call is about to hand its outcome to its caller: a finished call
\* returns before anything else happens
Quiet == \A c \in Callers : proc[c].pc # "done"

\* the call of caller c has reached the place pc of the code
At(c, pc) == Quiet /\ proc[c].pc = pc

\* callers are interchangeable: the first idle caller starts the next job
CanStart(c) ==
    /\ At(c, "idle")
    /\ budget.jobs < MaxJobs
    /\ \A b \in Callers : b < c => proc[b].pc # "idle"

\* the finished call returns to its caller: the outcome is handed over and
\* the record of the call is dropped
ReturnToCaller(c) ==
    /\ proc[c].pc = "done"
    /\ proc' = [proc EXCEPT ![c] = IdleProc]
    /\ UNCHANGED <<clock, backend, instance, redis_client, core_redis_client, store,
                   fresh, target, budget>>
    /\ UNCHANGED <<pureVars, serviceVars>>

NewJob(kind, firstpc) ==
    [IdleProc EXCEPT !.pc = firstpc, !.kind = kind, !.id = budget.jobs + 1]
CountJob == budget' = [budget EXCEPT !.jobs = @ + 1]

(***************************************************************************)
(* The environment: time passes, the Redis server fails and recovers.      *)
(***************************************************************************)
Tick(d) ==
    /\ Quiet
    /\ budget.ticks < MaxTicks
    /\ clock + d < MaxDays * DayTicks
    /\ clock' = clock + d
    /\ budget' = [budget EXCEPT !.ticks = @ + 1]
    /\ UNCHANGED <<backend, instance, redis_client, core_redis_client, store, proc, fresh,
                   target>>
    /\ UNCHANGED <<pureVars, serviceVars>>

BackendChange(b) ==
    /\ Quiet
    /\ budget.flips < MaxFlips
    /\ b # backend
    /\ "up" \in {b, backend}
    /\ backend' = b
    /\ fresh' = [key \in KeySpace |-> NoFresh]
    /\ budget' = [budget EXCEPT !.flips = @ + 1]
    /\ UNCHANGED <<clock, instance, redis_client, core_redis_client, store, proc, target>>
    /\ UNCHANGED <<pureVars, serviceVars>>

(***************************************************************************)
(* CacheService.__new__ with _initialize_redis, and setup_cache.           *)
(***************************************************************************)
Construct(c) ==
    /\ At(c, "idle")
    /\ c = 1 /\ budget.jobs = 0
    /\ ~instance
    /\ instance' = TRUE
    /\ LET r == redis_ping(backend)
           escapes == r.kind = "raise" /\ ~CaughtAtConnect(r)
       IN /\ redis_client' = IF r.kind = "raise" /\ CaughtAtConnect(r) THEN "None"
                             ELSE "client"
          /\ proc' = [proc EXCEPT ![c] =
                        [IdleProc EXCEPT !.pc = "done", !.kind = "construct",
                                         !.failed = (r.kind = "raise"),
                                         !.ret = IF escapes THEN r ELSE Return(None)]]
    /\ UNCHANGED <<clock, backend, core_redis_client, store, fresh, target, budget>>
    /\ UNCHANGED <<pureVars, serviceVars>>

SetupCache(c) ==
    /\ CanStart(c)
    /\ LET r == redis_ping(backend)
           escapes == r.kind = "raise" /\ ~CaughtAtConnect(r)
       IN /\ core_redis_client' = IF r.kind = "raise" /\ CaughtAtConnect(r) THEN "None"
                                  ELSE "client"
          /\ proc' = [proc EXCEPT ![c] =
                        [NewJob("setup_cache", "done") EXCEPT
                            !.failed = (r.kind = "raise"),
                            !.ret = IF escapes THEN r ELSE Return(None)]]
    /\ CountJob
    /\ UNCHANGED <<clock, backend, instance, redis_client, store, fresh, target>>
    /\ UNCHANGED <<pureVars, serviceVars>>

ApiIsAvailable(c) ==
    /\ CanStart(c)
    /\ proc' = [proc EXCEPT ![c] =
                    [NewJob("is_available", "done") EXCEPT
                        !.failed = ~is_available(redis_client, backend),
                        !.ret = Return(PyBool(is_available(redis_client, backend)))]]
    /\ CountJob
    /\ UNCHANGED <<clock, backend, instance, redis_client, core_redis_client, store, fresh, target>>
    /\ UNCHANGED <<pureVars, serviceVars>>

(***************************************************************************)
(* A call of a decorated endpoint: async_wrapper / sync_wrapper of         *)
(* CacheService.cache_decorator.  Each ping and each Redis command is a    *)
(* step of its own; the server may fail or recover between any two.        *)
(***************************************************************************)
StartCall(c, ep, kwargs) ==
    /\ CanStart(c)
    /\ ep = target
    /\ LET p == [NewJob("call", "avail") EXCEPT
                        !.ep = ep, !.kwargs = kwargs, !.key = KeyOf(ep, kwargs),
                        !.follow = fresh[KeyOf(ep, kwargs)]]
       IN proc' = [proc EXCEPT ![c] =
                    IF ep.stack = "implementation" THEN Enter(p, TRUE, clock) ELSE p]
    /\ CountJob
    /\ UNCHANGED <<clock, backend, instance, redis_client, core_redis_client, store, fresh, target>>
    /\ UNCHANGED <<pureVars, serviceVars>>

\* if not cls.is_available(): return func(*args, **kwargs)
WrapperAvailable(c) ==
    /\ At(c, "avail")
    /\ proc' = [proc EXCEPT ![c] =
                    IF is_available(redis_client, backend)
                    THEN [@ EXCEPT !.pc = "get_ping"]
                    ELSE Enter([@ EXCEPT !.failed = TRUE], TRUE, clock)]
    /\ UNCHANGED <<clock, backend, instance, redis_client, core_redis_client, store,
                   fresh, target, budget>>
    /\ UNCHANGED <<pureVars, serviceVars>>

\* AfterGet of a wrapper that computes a key once at a time: a miss waits
\* while another call is computing the value of the same key
AfterGet_single_flight(p, r, now) ==
    IF p.kind = "call"
    THEN IF r.found
         THEN Done([p EXCEPT !.hit = TRUE], Return(r.value))
         ELSE IF \E d \in Callers :
                    /\ proc[d].kind = "call" /\ proc[d].id # p.id /\ proc[d].key = p.key
                    /\ proc[d].pc \in {"running", "set_ping", "set_cmd", "expire_cmd"}
              THEN [p EXCEPT !.pc = "wait"]
              ELSE Enter(p, FALSE, now)
    ELSE Done(p, Return(PyTuple(<<PyBool(r.found), r.value>>)))

\* what the caller of CacheService.get does with (found, value): the wrapper
\* returns a cached value and calls func on a miss
AfterGet(p, r, now) ==
    IF p.kind = "call"
    THEN IF r.found
         THEN Done([p EXCEPT !.hit = TRUE], Return(r.value))
         ELSE Enter(p, FALSE, now)
    ELSE Done(p, Return(PyTuple(<<PyBool(r.found), r.value>>)))

\* CacheService.get: if not cls.is_available(): return False, None
GetPing(c) ==
    /\ At(c, "get_ping")
    /\ proc' = [proc EXCEPT ![c] =
                    IF is_available(redis_client, backend)
                    THEN [@ EXCEPT !.pc = "get_cmd"]
                    ELSE AfterGet([@ EXCEPT !.failed = TRUE],
                                  [found |-> FALSE, value |-> None], clock)]
    /\ UNCHANGED <<clock, backend, instance, redis_client, core_redis_client, store,
                   fresh, target, budget>>
    /\ UNCHANGED <<pureVars, serviceVars>>

\* GetCmd without the try/except: a failure of the GET command leaves get
GetCmd_unguarded(c) ==
    /\ At(c, "get_cmd")
    /\ LET p == proc[c]
           r == get_command(backend, store, p.key, clock)
       IN proc' = [proc EXCEPT ![c] =
                    IF backend # "up"
                    THEN Done([p EXCEPT !.failed = TRUE], BackendError(backend))
                    ELSE AfterGet([p EXCEPT !.looked = TRUE,
                                            !.intime = (clock < p.follow.deadline),
                                            !.hitDay = IF r.found THEN DateOf(clock) ELSE 0,
                                            !.beganDay = IF r.found THEN store[p.key].began
                                                         ELSE 0],
                                  r, clock)]
    /\ UNCHANGED <<clock, backend, instance, redis_client, core_redis_client, store,
                   fresh, target, budget>>
    /\ UNCHANGED <<pureVars, serviceVars>>

\* CacheService.get: the GET command and pickle.loads, inside try/except
GetCmd(c) ==
    /\ At(c, "get_cmd")
    /\ LET p == proc[c]
           r == get_command(backend, store, p.key, clock)
       IN proc' = [proc EXCEPT ![c] =
                    AfterGet([p EXCEPT !.failed = (p.failed \/ backend # "up"),
                                       !.looked = TRUE,
                                       !.intime = (clock < p.follow.deadline),
                                       !.hitDay = IF r.found THEN DateOf(clock) ELSE 0,
                                       !.beganDay = IF r.found THEN store[p.key].began
                                                    ELSE 0],
                             r, clock)]
    /\ UNCHANGED <<clock, backend, instance, redis_client, core_redis_client, store,
                   fresh, target, budget>>
    /\ UNCHANGED <<pureVars, serviceVars>>

\* FuncReturn where the wrapper turns an error of the wrapped operation into None
FuncReturn_swallow(c, called) ==
    /\ At(c, "running")
    /\ LET p == Tracked(proc[c])
           inner == WrappedOperation(p.ep.stack, p.kwargs, called)
       IN proc' = [proc EXCEPT ![c] =
                    Done([p EXCEPT !.inner = inner],
                         IF inner.kind = "raise" THEN Return(None) ELSE inner)]
    /\ UNCHANGED <<clock, backend, instance, redis_client, core_redis_client, store,
                   fresh, target, budget>>
    /\ UNCHANGED <<pureVars, serviceVars>>

\* a wrapper that stores None under the key when the wrapped operation raises
FuncReturn_cache_error(c, called) ==
    /\ At(c, "running")
    /\ LET p == Tracked(proc[c])
           inner == WrappedOperation(p.ep.stack, p.kwargs, called)
       IN proc' = [proc EXCEPT ![c] =
                    IF p.isdirect
                    THEN Done([p EXCEPT !.inner = inner], inner)
                    ELSE [p EXCEPT !.pc = "set_ping", !.inner = inner,
                                   !.value = IF inner.kind = "raise" THEN None ELSE inner.val,
                                   !.expire = cache_decorator_expiration(
                                       p.ep.expire, p.ep.invalidate_at_midnight, clock)]]
    /\ UNCHANGED <<clock, backend, instance, redis_client, core_redis_client, store,
                   fresh, target, budget>>
    /\ UNCHANGED <<pureVars, serviceVars>>

\* the wrapped operation ends: its error leaves the wrapper as it is; its
\* result is returned at once on the uncached path, and otherwise the
\* expiration is computed from datetime.utcnow()
FuncReturn(c, called) ==
    /\ At(c, "running")
    /\ LET p == Tracked(proc[c])
           inner == WrappedOperation(p.ep.stack, p.kwargs, called)
       IN proc' = [proc EXCEPT ![c] =
                    IF inner.kind = "raise" \/ p.isdirect
                    THEN Done([p EXCEPT !.inner = inner], inner)
                    ELSE [p EXCEPT !.pc = "set_ping", !.inner = inner,
                                   !.value = inner.val,
                                   !.expire = cache_decorator_expiration(
                                       p.ep.expire, p.ep.invalidate_at_midnight, clock)]]
    /\ UNCHANGED <<clock, backend, instance, redis_client, core_redis_client, store,
                   fresh, target, budget>>
    /\ UNCHANGED <<pureVars, serviceVars>>

\* what the caller of CacheService.set does with its boolean
AfterSet(p, ok) ==
    IF p.kind = "call" THEN Done(p, Return(p.value))
    ELSE Done(p, Return(PyBool(ok)))

\* the undisturbed miss-and-store a finished call leaves for its key
FreshOf(p, stored, deadline) ==
    IF p.kind = "call" /\ ~p.failed
    THEN [id |-> p.id, val |-> p.value, stored |-> stored, ttl |-> p.expire,
          deadline |-> deadline]
    ELSE NoFresh

\* CacheService.set: if not cls.is_available(): return False
SetPing(c) ==
    /\ At(c, "set_ping")
    /\ proc' = [proc EXCEPT ![c] =
                    IF is_available(redis_client, backend)
                    THEN [@ EXCEPT !.pc = "set_cmd"]
                    ELSE AfterSet([@ EXCEPT !.failed = TRUE], FALSE)]
    /\ UNCHANGED <<clock, backend, instance, redis_client, core_redis_client, store,
                   fresh, target, budget>>
    /\ UNCHANGED <<pureVars, serviceVars>>

\* the entry SET or SETNX writes.  began, by and set are not in the store:
\* they keep the day the value was computed, the call that wrote it, and what
\* has become of that call of set ("pending" until it returns, then "ok" or
\* "failed")
NewEntry(p, set) == [bytes |-> dumps(p.value), deadline |-> NoExpiry, began |-> p.began,
                     by |-> p.id, set |-> set]

\* CacheService.set: pickle.dumps, then SETNX, or SET with EXPIRE to follow;
\* any exception makes it return False
SetCmd(c) ==
    /\ At(c, "set_cmd")
    /\ LET p == proc[c]
           q == [p EXCEPT !.failed = (p.failed \/ backend # "up")]
       IN IF ~Picklable(p.value)
          THEN /\ proc' = [proc EXCEPT ![c] = AfterSet(p, FALSE)]
               /\ store' = store
               /\ fresh' = IF backend = "up"
                           THEN [fresh EXCEPT ![p.key] = FreshOf(p, FALSE, 0)]
                           ELSE fresh
          ELSE IF backend # "up"
          THEN /\ proc' = [proc EXCEPT ![c] = AfterSet(q, FALSE)]
               /\ UNCHANGED <<store, fresh>>
          ELSE IF p.nx
          THEN /\ proc' = [proc EXCEPT ![c] = AfterSet(p, ~Alive(store, p.key, clock))]
               /\ store' = IF Alive(store, p.key, clock) THEN store
                           ELSE [store EXCEPT ![p.key] = NewEntry(p, "ok")]
               /\ fresh' = [fresh EXCEPT ![p.key] = NoFresh]
          ELSE /\ store' = [store EXCEPT ![p.key] =
                                NewEntry(p, IF p.expire # NoExpiry THEN "pending" ELSE "ok")]
               /\ proc' = [proc EXCEPT ![c] =
                            IF p.expire # NoExpiry THEN [p EXCEPT !.pc = "expire_cmd"]
                            ELSE AfterSet(p, TRUE)]
               /\ fresh' = [fresh EXCEPT ![p.key] = NoFresh]
    /\ UNCHANGED <<clock, backend, instance, redis_client, core_redis_client, target, budget>>
    /\ UNCHANGED <<pureVars, serviceVars>>

\* CacheService.set: _redis_client.expire(key, expire); a timeout of zero or
\* less deletes the key
ExpireCmd(c) ==
    /\ At(c, "expire_cmd")
    /\ LET p == proc[c]
           q == [p EXCEPT !.failed = TRUE]
           deadline == clock + p.expire * TicksPerSecond
           mine == store[p.key] # Absent /\ store[p.key].by = p.id
       IN IF backend # "up"
          THEN /\ proc' = [proc EXCEPT ![c] = AfterSet(q, FALSE)]
               /\ store' = IF mine THEN [store EXCEPT ![p.key].set = "failed"] ELSE store
               /\ UNCHANGED fresh
          ELSE /\ store' = IF ~Alive(store, p.key, clock) THEN store
                           ELSE IF p.expire <= 0 THEN [store EXCEPT ![p.key] = Absent]
                           ELSE [store EXCEPT ![p.key].deadline = deadline,
                                              ![p.key].set = IF mine THEN "ok" ELSE @]
               /\ proc' = [proc EXCEPT ![c] = AfterSet(p, TRUE)]
               /\ fresh' = [fresh EXCEPT ![p.key] =
                                FreshOf(p, Alive(store, p.key, clock) /\ store[p.key].by = p.id,
                                        deadline)]
    /\ UNCHANGED <<clock, backend, instance, redis_client, core_redis_client, target, budget>>
    /\ UNCHANGED <<pureVars, serviceVars>>

(***************************************************************************)
(* Direct use of CacheService: get, set, delete, clear_namespace.          *)
(***************************************************************************)
ApiValues == {Scalar("int", "1"), None, Stale}
ApiKeys == {generate_key(ns, <<>>, ItemsOf(kw)) : ns \in CustomNamespaces, kw \in CallKwargs}
ApiExpires == {NoExpiry, 60}

StartGet(c, key) ==
    /\ CanStart(c)
    /\ proc' = [proc EXCEPT ![c] = [NewJob("get", "get_ping") EXCEPT !.key = key]]
    /\ CountJob
    /\ UNCHANGED <<clock, backend, instance, redis_client, core_redis_client, store, fresh, target>>
    /\ UNCHANGED <<pureVars, serviceVars>>

StartSet(c, key, value, expire, nx) ==
    /\ CanStart(c)
    /\ proc' = [proc EXCEPT ![c] =
                    [NewJob("set", "set_ping") EXCEPT
                        !.key = key, !.value = value, !.expire = expire, !.nx = nx,
                        !.began = DateOf(clock)]]
    /\ CountJob
    /\ UNCHANGED <<clock, backend, instance, redis_client, core_redis_client, store, fresh, target>>
    /\ UNCHANGED <<pureVars, serviceVars>>

StartDelete(c, key) ==
    /\ CanStart(c)
    /\ proc' = [proc EXCEPT ![c] = [NewJob("delete", "del_ping") EXCEPT !.key = key]]
    /\ CountJob
    /\ UNCHANGED <<clock, backend, instance, redis_client, core_redis_client, store, fresh, target>>
    /\ UNCHANGED <<pureVars, serviceVars>>

StartClear(c, namespace) ==
    /\ CanStart(c)
    /\ proc' = [proc EXCEPT ![c] = [NewJob("clear", "clear_ping") EXCEPT !.ns = namespace]]
    /\ CountJob
    /\ UNCHANGED <<clock, backend, instance, redis_client, core_redis_client, store, fresh, target>>
    /\ UNCHANGED <<pureVars, serviceVars>>

Finished(p, x) == Done(p, Return(x))

\* CacheService.delete: if not cls.is_available(): return False
DelPing(c) ==
    /\ At(c, "del_ping")
    /\ proc' = [proc EXCEPT ![c] =
                    IF is_available(redis_client, backend)
                    THEN [@ EXCEPT !.pc = "del_cmd"]
                    ELSE Finished([@ EXCEPT !.failed = TRUE], PyBool(FALSE))]
    /\ UNCHANGED <<clock, backend, instance, redis_client, core_redis_client, store,
                   fresh, target, budget>>
    /\ UNCHANGED <<pureVars, serviceVars>>

\* CacheService.delete: bool(_redis_client.delete(key)), inside try/except
DelCmd(c) ==
    /\ At(c, "del_cmd")
    /\ LET p == proc[c]
       IN IF backend # "up"
          THEN /\ proc' = [proc EXCEPT ![c] = Finished([p EXCEPT !.failed = TRUE],
                                                       PyBool(FALSE))]
               /\ UNCHANGED <<store, fresh>>
          ELSE /\ proc' = [proc EXCEPT ![c] = Finished(p, PyBool(Alive(store, p.key, clock)))]
               /\ store' = [store EXCEPT ![p.key] = Absent]
               /\ fresh' = [fresh EXCEPT ![p.key] = NoFresh]
    /\ UNCHANGED <<clock, backend, instance, redis_client, core_redis_client, target, budget>>
    /\ UNCHANGED <<pureVars, serviceVars>>

\* the glob f"{CACHE_PREFIX}:{namespace}:*" matches key
MatchesPattern(key, namespace) ==
    LET pattern == CACHE_PREFIX \o <<":">> \o namespace \o <<":">>
    IN /\ Len(key) >= Len(pattern)
       /\ SubSeq(key, 1, Len(pattern)) = pattern

\* CacheService.clear_namespace: if not cls.is_available(): return 0
ClearPing(c) ==
    /\ At(c, "clear_ping")
    /\ proc' = [proc EXCEPT ![c] =
                    IF is_available(redis_client, backend)
                    THEN [@ EXCEPT !.pc = "clear_keys"]
                    ELSE Finished([@ EXCEPT !.failed = TRUE], PyInt(0))]
    /\ UNCHANGED <<clock, backend, instance, redis_client, core_redis_client, store,
                   fresh, target, budget>>
    /\ UNCHANGED <<pureVars, serviceVars>>

\* CacheService.clear_namespace: keys = _redis_client.keys(pattern)
ClearKeys(c) ==
    /\ At(c, "clear_keys")
    /\ LET p == proc[c]
           keys == {key \in KeySpace : Alive(store, key, clock) /\ MatchesPattern(key, p.ns)}
       IN proc' = [proc EXCEPT ![c] =
                    IF backend # "up" THEN Finished([p EXCEPT !.failed = TRUE], PyInt(0))
                    ELSE IF keys = {} THEN Finished(p, PyInt(0))
                    ELSE [p EXCEPT !.pc = "clear_del", !.keys = keys]]
    /\ UNCHANGED <<clock, backend, instance, redis_client, core_redis_client, store,
                   fresh, target, budget>>
    /\ UNCHANGED <<pureVars, serviceVars>>

\* CacheService.clear_namespace: return _redis_client.delete(*keys)
ClearDel(c) ==
    /\ At(c, "clear_del")
    /\ LET p == proc[c]
           removed == {key \in p.keys : Alive(store, key, clock)}
       IN IF backend # "up"
          THEN /\ proc' = [proc EXCEPT ![c] = Finished([p EXCEPT !.failed = TRUE], PyInt(0))]
               /\ UNCHANGED <<store, fresh>>
          ELSE /\ proc' = [proc EXCEPT ![c] = Finished(p, PyInt(Cardinality(removed)))]
               /\ store' = [key \in KeySpace |-> IF key \in p.keys THEN Absent ELSE store[key]]
               /\ fresh' = [key \in KeySpace |-> IF key \in p.keys THEN NoFresh ELSE fresh[key]]
    /\ UNCHANGED <<clock, backend, instance, redis_client, core_redis_client, target, budget>>
    /\ UNCHANGED <<pureVars, serviceVars>>

\* an outage of the server ends
BackendRecovers ==
    /\ Quiet
    /\ backend # "up"
    /\ budget.flips = MaxFlips
    /\ backend' = "up"
    /\ fresh' = [key \in KeySpace |-> NoFresh]
    /\ UNCHANGED <<clock, instance, redis_client, core_redis_client, store, proc, target,
                   budget>>
    /\ UNCHANGED <<pureVars, serviceVars>>

Environment ==
    \/ \E d \in ClockSteps : Tick(d)
    \/ \E b \in {"up", "refused", "timeout"} : BackendChange(b)

\* the decorated endpoints under concurrent callers
Init == InitCache /\ IdlePure

\* the steps of the calls in progress, and the calls that start
Calls ==
    \E c \in Callers :
        \/ ReturnToCaller(c)
        \/ Construct(c)
        \/ \E ep \in Endpoints, kwargs \in CallKwargs : StartCall(c, ep, kwargs)
        \/ WrapperAvailable(c)
        \/ GetPing(c)
        \/ GetCmd(c)
        \/ \E called \in EndpointOutcomes : FuncReturn(c, called)
        \/ SetPing(c)
        \/ SetCmd(c)
        \/ ExpireCmd(c)

Next ==
    \/ Environment
    \/ Calls

Spec == Init /\ [][Next]_vars

\* the same callers while time passes; the server stays as it was found
NextClock ==
    \/ \E d \in ClockSteps : Tick(d)
    \/ Calls

SpecClock == Init /\ [][NextClock]_vars

\* the same callers while the server fails and recovers between any two of
\* their steps; the clock stands
NextOutage ==
    \/ \E b \in {"up", "refused", "timeout"} : BackendChange(b)
    \/ Calls

SpecOutage == Init /\ [][NextOutage]_vars

\* CacheService used directly by concurrent callers
NextService ==
    \/ Environment
    \/ BackendRecovers
    \/ \E c \in Callers :
        \/ ReturnToCaller(c)
        \/ Construct(c)
        \/ SetupCache(c)
        \/ ApiIsAvailable(c)
        \/ \E key \in ApiKeys : StartGet(c, key)
        \/ \E key \in ApiKeys, value \in ApiValues, expire \in ApiExpires, nx \in BOOLEAN :
                StartSet(c, key, value, expire, nx)
        \/ \E key \in ApiKeys : StartDelete(c, key)
        \/ \E namespace \in Namespaces : StartClear(c, namespace)
        \/ GetPing(c)
        \/ GetCmd(c)
        \/ SetPing(c)
        \/ SetCmd(c)
        \/ ExpireCmd(c)
        \/ DelPing(c)
        \/ DelCmd(c)
        \/ ClearPing(c)
        \/ ClearKeys(c)
        \/ ClearDel(c)

InitService == InitCache /\ IdlePure /\ target = CHOOSE ep \in Endpoints : ep.stack = "factory"

SpecService == InitService /\ [][NextService]_vars

(***************************************************************************)
(* process_yfinance_output applied once and then to its own output.        *)
(***************************************************************************)
InitSanitize ==
    /\ step = "input"
    /\ arg \in SanInputs(MaxDepth)
    /\ res = Unset
    /\ res2 = Unset
    /\ IdleCache
    /\ IdleServices

Sanitize ==
    /\ step = "input"
    /\ res' = process_yfinance_output(arg)
    /\ step' = "once"
    /\ UNCHANGED <<arg, res2>>
    /\ UNCHANGED <<cacheVars, serviceVars>>

SanitizeAgain ==
    /\ step = "once"
    /\ res2' = process_yfinance_output(res)
    /\ step' = "twice"
    /\ UNCHANGED <<arg, res>>
    /\ UNCHANGED <<cacheVars, serviceVars>>

NextSanitize == Sanitize \/ SanitizeAgain

SpecSanitize == InitSanitize /\ [][NextSanitize]_vars

(***************************************************************************)
(* One call of an operation wrapped by clean_yfinance_data.                *)
(***************************************************************************)
InitClean ==
    /\ step = "input"
    /\ arg \in {[kwargs |-> kw, called |-> o] : kw \in KwargSets, o \in FuncOutcomes}
    /\ res = Unset
    /\ res2 = Unset
    /\ IdleCache
    /\ IdleServices

Clean ==
    /\ step = "input"
    /\ res' = clean_yfinance_data(arg.kwargs, arg.called)
    /\ step' = "cleaned"
    /\ UNCHANGED <<arg, res2>>
    /\ UNCHANGED <<cacheVars, serviceVars>>

NextClean == Clean

SpecClean == InitClean /\ [][NextClean]_vars

(***************************************************************************)
(* One computation of the expiration a cache decorator passes to the       *)
(* store.                                                                  *)
(***************************************************************************)
InitTtl ==
    /\ step = "input"
    /\ arg \in {[decorator |-> dec, expire |-> e, invalidate_at_midnight |-> m, now |-> t] :
                    dec \in {"cache_decorator", "custom_cache"}, e \in BaseTtls,
                    m \in BOOLEAN, t \in ClockReadings}
    /\ res = Unset
    /\ res2 = Unset
    /\ IdleCache
    /\ IdleServices

ResolveTtl ==
    /\ step = "input"
    /\ res' = Expiration(arg.decorator, arg.expire, arg.invalidate_at_midnight, arg.now)
    /\ step' = "resolved"
    /\ UNCHANGED <<arg, res2>>
    /\ UNCHANGED <<cacheVars, serviceVars>>

NextTtl == ResolveTtl

SpecTtl == InitTtl /\ [][NextTtl]_vars

(***************************************************************************)
(* The cache decorator each decorator factory puts on the callable it      *)
(* returns, for a duration tag.  attribute_name is "" when it is not given, *)
(* the tag "" is a tag that is not given.                                  *)
(***************************************************************************)
THIRTY_MINUTES == 30 * 60
ONE_DAY == 24 * 60 * 60
ONE_WEEK == 7 * 24 * 60 * 60
ONE_MONTH == 30 * 24 * 60 * 60
THREE_MONTHS == 90 * 24 * 60 * 60

NoCache == [cached |-> FALSE, expire |-> 0, invalidate_at_midnight |-> FALSE]
Cache(expire, invalidate_at_midnight) ==
    [cached |-> TRUE, expire |-> expire, invalidate_at_midnight |-> invalidate_at_midnight]

cache_30_minutes == Cache(CACHE_30_MINUTES, FALSE)
cache_1_day(invalidate_at_midnight) == Cache(CACHE_1_DAY, invalidate_at_midnight)
cache_1_week == Cache(CACHE_1_WEEK, FALSE)
cache_1_month == Cache(CACHE_1_MONTH, FALSE)
cache_3_months == Cache(CACHE_3_MONTHS, FALSE)

\* cache_times.get(cache_duration, ONE_DAY)
cache_times(cache_duration) ==
    CASE cache_duration = "30_minutes" -> THIRTY_MINUTES
      [] cache_duration = "1_day" -> ONE_DAY
      [] cache_duration = "1_week" -> ONE_WEEK
      [] cache_duration = "1_month" -> ONE_MONTH
      [] cache_duration = "3_months" -> THREE_MONTHS
      [] OTHER -> ONE_DAY

endpoint_decorator(cache_duration, invalidate_at_midnight) ==
    IF cache_duration # ""
    THEN Cache(cache_times(cache_duration), invalidate_at_midnight)
    ELSE NoCache

ONE_DAY_ATTRIBUTES == {"actions", "analyst_price_targets", "balance_sheet", "capital_gains",
                       "cash_flow", "dividends", "earnings", "financials", "news"}
ONE_WEEK_ATTRIBUTES == {"calendar", "earnings_dates", "major_holders", "sector_overview",
                        "industry_overview", "industry_top_companies"}
THREE_MONTHS_ATTRIBUTES == {"basic_info", "fast_info", "isin", "sector_industries"}
THIRTY_MINUTES_ATTRIBUTES == {"market_status", "market_summary", "search_all", "search_quotes"}

\* ENDPOINT_CACHE_DURATIONS.get(attribute_name, "1_day"): the table holds
\* numbers of seconds, the default is the name of a tag
ENDPOINT_CACHE_DURATIONS(attribute_name) ==
    CASE attribute_name \in ONE_DAY_ATTRIBUTES -> PyInt(ONE_DAY)
      [] attribute_name \in ONE_WEEK_ATTRIBUTES -> PyInt(ONE_WEEK)
      [] attribute_name \in THREE_MONTHS_ATTRIBUTES -> PyInt(THREE_MONTHS)
      [] attribute_name \in THIRTY_MINUTES_ATTRIBUTES -> PyInt(THIRTY_MINUTES)
      [] OTHER -> Scalar("str", "1_day")

INVALIDATE_AT_MIDNIGHT == {"actions", "analyst_price_targets", "balance_sheet", "cash_flow",
                           "dividends", "earnings", "financials", "news"}

\* the value of the table is compared with the names of the tags
get_cache_decorator(attribute_name, invalidate_at_midnight) ==
    LET cache_duration == ENDPOINT_CACHE_DURATIONS(attribute_name)
        midnight == invalidate_at_midnight \/ attribute_name \in INVALIDATE_AT_MIDNIGHT
    IN CASE cache_duration = Scalar("str", "30_minutes") -> cache_30_minutes
         [] cache_duration = Scalar("str", "1_day") -> cache_1_day(midnight)
         [] cache_duration = Scalar("str", "1_week") -> cache_1_week
         [] cache_duration = Scalar("str", "1_month") -> cache_1_month
         [] cache_duration = Scalar("str", "3_months") -> cache_3_months
         [] OTHER -> cache_1_day(midnight)

\* the cache is applied if attribute_name is given, and then the undecorated
\* implementation is returned
ticker_endpoint(attribute_name, invalidate_at_midnight, cache_duration) ==
    LET decorated ==
            IF attribute_name # ""
            THEN IF cache_duration # ""
                 THEN CASE cache_duration = "30_minutes" -> cache_30_minutes
                        [] cache_duration = "1_day" -> cache_1_day(invalidate_at_midnight)
                        [] cache_duration = "1_week" -> cache_1_week
                        [] cache_duration = "1_month" -> cache_1_month
                        [] cache_duration = "3_months" -> cache_3_months
                        [] OTHER -> NoCache
                 ELSE get_cache_decorator(attribute_name, invalidate_at_midnight)
            ELSE NoCache
    IN IF attribute_name # "" THEN NoCache ELSE decorated

market_endpoint(cache_duration, attribute_name) ==
    LET decorated ==
            CASE cache_duration = "30_minutes" -> cache_30_minutes
              [] cache_duration = "1_day" -> cache_1_day(TRUE)
              [] cache_duration = "1_week" -> cache_1_week
              [] OTHER -> NoCache
    IN IF attribute_name # "" THEN NoCache ELSE decorated

search_endpoint(cache_duration, attribute_name) ==
    LET decorated ==
            CASE cache_duration = "30_minutes" -> cache_30_minutes
              [] cache_duration = "1_day" -> cache_1_day(TRUE)
              [] OTHER -> NoCache
    IN IF attribute_name # "" THEN NoCache ELSE decorated

sector_endpoint(cache_duration, attribute_name) ==
    LET decorated ==
            CASE cache_duration = "1_day" -> cache_1_day(TRUE)
              [] cache_duration = "1_week" -> cache_1_week
              [] cache_duration = "1_month" -> cache_1_month
              [] cache_duration = "3_months" -> cache_3_months
              [] OTHER -> NoCache
    IN IF attribute_name # "" THEN NoCache ELSE decorated

industry_endpoint(cache_duration, attribute_name) ==
    sector_endpoint(cache_duration, attribute_name)

Factories == {"endpoint_decorator", "ticker_endpoint", "market_endpoint", "search_endpoint",
              "sector_endpoint", "industry_endpoint"}
DurationTags == {"30_minutes", "1_hour", "1_day", "1_week", "1_month", "3_months", "2_days"}
AttributeNames == {"", "info"}

FactoryCache(factory, cache_duration, attribute_name, invalidate_at_midnight) ==
    CASE factory = "endpoint_decorator" ->
            endpoint_decorator(cache_duration, invalidate_at_midnight)
      [] factory = "ticker_endpoint" ->
            ticker_endpoint(attribute_name, invalidate_at_midnight, cache_duration)
      [] factory = "market_endpoint" -> market_endpoint(cache_duration, attribute_name)
      [] factory = "search_endpoint" -> search_endpoint(cache_duration, attribute_name)
      [] factory = "sector_endpoint" -> sector_endpoint(cache_duration, attribute_name)
      [] factory = "industry_endpoint" -> industry_endpoint(cache_duration, attribute_name)

InitFactory ==
    /\ step = "input"
    /\ arg \in {[factory |-> f, cache_duration |-> tag, attribute_name |-> a,
                 invalidate_at_midnight |-> m] :
                    f \in Factories, tag \in DurationTags, a \in AttributeNames,
                    m \in BOOLEAN}
    /\ res = Unset
    /\ res2 = Unset
    /\ IdleCache
    /\ IdleServices

Decorate ==
    /\ step = "input"
    /\ res' = FactoryCache(arg.factory, arg.cache_duration, arg.attribute_name,
                           arg.invalidate_at_midnight)
    /\ step' = "decorated"
    /\ UNCHANGED <<arg, res2>>
    /\ UNCHANGED <<cacheVars, serviceVars>>

NextFactory == Decorate

SpecFactory == InitFactory /\ [][NextFactory]_vars

(***************************************************************************)
(* SchedulerService: the loop of _run, which is one asyncio task, Task.run, *)
(* and the calls of start, stop, enable_task, disable_task and unschedule. *)
(* The runner is cancelled where it awaits.                                *)
(***************************************************************************)
\* Task.should_run; due stands for datetime.utcnow() >= self.next_run
should_run(task) == task.enabled /\ ~task.running /\ task.due

RECURSIVE DueFrom(_)
\* for task_id, task in cls._tasks.items(): if task.should_run(): append
DueFrom(t) ==
    IF t > NumTasks THEN <<>>
    ELSE (IF tasks[t].present /\ should_run(tasks[t]) THEN <<t>> ELSE <<>>) \o DueFrom(t + 1)

\* the retries are used up one failure early
Exhausted_early(retries, max_retries) == retries >= max_retries

\* the else branch of: if retries <= self.max_retries
Exhausted(retries, max_retries) == retries > max_retries

RECURSIVE TimesDue(_)
\* the times the tasks from t on have become due
TimesDue(t) ==
    IF t > NumTasks THEN 0
    ELSE tasks[t].runs + (IF tasks[t].due THEN 1 ELSE 0) + TimesDue(t + 1)

\* datetime.utcnow() reaches next_run
Elapse(t) ==
    /\ ~tasks[t].due
    /\ TimesDue(1) < MaxRuns
    /\ tasks' = [tasks EXCEPT ![t].due = TRUE]
    /\ UNCHANGED scheduler
    /\ UNCHANGED <<pureVars, cacheVars, metricsVars, limiterVars, trackVars>>

Start ==
    /\ ~scheduler.running
    /\ scheduler' = [IdleRunner EXCEPT !.running = TRUE, !.pc = "created"]
    /\ UNCHANGED tasks
    /\ UNCHANGED <<pureVars, cacheVars, metricsVars, limiterVars, trackVars>>

\* stop(): the runner is cancelled; CancelledError is raised where it awaits
\* and no except Exception clause catches it
Stop ==
    /\ scheduler.running
    /\ scheduler.pc \in {"created", "attempt", "retry_sleep", "on_error", "sleep"}
    /\ scheduler' = IdleRunner
    /\ UNCHANGED tasks
    /\ UNCHANGED <<pureVars, cacheVars, metricsVars, limiterVars, trackVars>>

\* while cls._running: collect the tasks that should run
Scan ==
    /\ scheduler.pc \in {"created", "sleep"}
    /\ scheduler' = IF scheduler.running
                    THEN [scheduler EXCEPT !.pc = "next", !.tasks_to_run = DueFrom(1)]
                    ELSE IdleRunner
    /\ UNCHANGED tasks
    /\ UNCHANGED <<pureVars, cacheVars, metricsVars, limiterVars, trackVars>>

\* await task.run(), up to the first call of func
RunTask ==
    /\ scheduler.pc = "next"
    /\ scheduler.tasks_to_run # <<>>
    /\ LET t == Head(scheduler.tasks_to_run)
       IN IF tasks[t].running
          THEN /\ scheduler' = [scheduler EXCEPT !.tasks_to_run = Tail(@)]
               /\ UNCHANGED tasks
          ELSE /\ tasks' = [tasks EXCEPT ![t].running = TRUE, ![t].runs = @ + 1,
                                          ![t].due = FALSE]
               /\ scheduler' = [scheduler EXCEPT
                                    !.pc = "attempt", !.tasks_to_run = Tail(@), !.task = t,
                                    !.retries = 0, !.success = FALSE, !.attempts = 0,
                                    !.failures0 = tasks[t].failures,
                                    !.errors0 = tasks[t].errors]
    /\ UNCHANGED <<pureVars, cacheVars, metricsVars, limiterVars, trackVars>>

\* await asyncio.sleep(1)
Sleep ==
    /\ scheduler.pc = "next"
    /\ scheduler.tasks_to_run = <<>>
    /\ scheduler' = [scheduler EXCEPT !.pc = "sleep"]
    /\ UNCHANGED tasks
    /\ UNCHANGED <<pureVars, cacheVars, metricsVars, limiterVars, trackVars>>

\* one pass of the while loop of Task.run: func returns or raises
Attempt(ok) ==
    /\ scheduler.pc = "attempt"
    /\ LET t == scheduler.task
           retries == scheduler.retries + 1
       IN IF ok
          THEN /\ scheduler' = [scheduler EXCEPT !.attempts = @ + 1, !.success = TRUE,
                                                 !.pc = "finish"]
               /\ UNCHANGED tasks
          ELSE IF ~Exhausted(retries, tasks[t].max_retries)
          THEN /\ scheduler' = [scheduler EXCEPT !.attempts = @ + 1, !.retries = retries,
                                                 !.pc = "retry_sleep"]
               /\ UNCHANGED tasks
          ELSE /\ scheduler' = [scheduler EXCEPT !.attempts = @ + 1, !.retries = retries,
                                                 !.pc = "on_error"]
               /\ tasks' = [tasks EXCEPT ![t].failures = @ + 1, ![t].errors = @ + 1]
    /\ UNCHANGED <<pureVars, cacheVars, metricsVars, limiterVars, trackVars>>

\* await asyncio.sleep(self.retry_delay)
RetrySleep ==
    /\ scheduler.pc = "retry_sleep"
    /\ scheduler' = [scheduler EXCEPT !.pc = "attempt"]
    /\ UNCHANGED tasks
    /\ UNCHANGED <<pureVars, cacheVars, metricsVars, limiterVars, trackVars>>

\* on_error returns, or raises an Exception that is logged
OnErrorReturns ==
    /\ scheduler.pc = "on_error"
    /\ scheduler' = [scheduler EXCEPT !.pc = "finish"]
    /\ UNCHANGED tasks
    /\ UNCHANGED <<pureVars, cacheVars, metricsVars, limiterVars, trackVars>>

\* self.running = False; return success
Finish ==
    /\ scheduler.pc = "finish"
    /\ tasks' = [tasks EXCEPT ![scheduler.task].running = FALSE]
    /\ scheduler' = [IdleRunner EXCEPT !.running = scheduler.running, !.pc = "next",
                                       !.tasks_to_run = scheduler.tasks_to_run]
    /\ UNCHANGED <<pureVars, cacheVars, metricsVars, limiterVars, trackVars>>

disable_task(t) ==
    /\ tasks[t].present
    /\ tasks' = [tasks EXCEPT ![t].enabled = FALSE, ![t].banned = TRUE]
    /\ UNCHANGED scheduler
    /\ UNCHANGED <<pureVars, cacheVars, metricsVars, limiterVars, trackVars>>

enable_task(t) ==
    /\ tasks[t].present
    /\ tasks' = [tasks EXCEPT ![t].enabled = TRUE, ![t].banned = FALSE]
    /\ UNCHANGED scheduler
    /\ UNCHANGED <<pureVars, cacheVars, metricsVars, limiterVars, trackVars>>

unschedule(t) ==
    /\ tasks[t].present
    /\ tasks' = [tasks EXCEPT ![t].present = FALSE, ![t].banned = TRUE]
    /\ UNCHANGED scheduler
    /\ UNCHANGED <<pureVars, cacheVars, metricsVars, limiterVars, trackVars>>

\* tasks scheduled all with immediate or all without, with one max_retries
InitScheduler ==
    /\ IdleCache
    /\ step = "idle"
    /\ arg = Unset
    /\ res = Unset
    /\ res2 = Unset
    /\ IdleMetrics
    /\ IdleLimiter
    /\ IdleTracking
    /\ tasks \in {[t \in TaskIds |-> [IdleTask EXCEPT !.max_retries = m, !.due = immediate]] :
                    m \in 0..MaxRetries, immediate \in BOOLEAN}
    /\ scheduler = IdleRunner

NextScheduler ==
    \/ Start
    \/ Stop
    \/ Scan
    \/ RunTask
    \/ Sleep
    \/ \E ok \in BOOLEAN : Attempt(ok)
    \/ RetrySleep
    \/ OnErrorReturns
    \/ Finish
    \/ \E t \in TaskIds :
        \/ Elapse(t)
        \/ disable_task(t)
        \/ enable_task(t)
        \/ unschedule(t)

SpecScheduler == InitScheduler /\ [][NextScheduler]_vars

(***************************************************************************)
(* RateLimitMiddleware.dispatch for the requests of one client IP, served  *)
(* by worker processes that share the store.  The store is available and   *)
(* the counter entry does not expire; each get and set is one command.     *)
(***************************************************************************)
\* settings.RATE_LIMIT_REQUESTS, taken small
RATE_LIMIT_REQUESTS == 2

\* a request of the client reaches worker w
Arrive(w) ==
    /\ limiter.request[w].pc = "idle"
    /\ limiter.arrived < MaxRequests
    /\ limiter' = [limiter EXCEPT !.arrived = @ + 1, !.request[w].pc = "check"]
    /\ UNCHANGED <<pureVars, cacheVars, metricsVars, schedVars, trackVars>>

\* counter = await self._get_rate_limit_counter(key);
\* if counter >= self.requests: raise RateLimitExceededError
GetCounter(w) ==
    /\ limiter.request[w].pc = "check"
    /\ limiter' = IF limiter.entry >= RATE_LIMIT_REQUESTS
                  THEN [limiter EXCEPT !.rejected = @ + 1, !.request[w] = IdleRequest]
                  ELSE [limiter EXCEPT !.request[w].pc = "increment"]
    /\ UNCHANGED <<pureVars, cacheVars, metricsVars, schedVars, trackVars>>

\* _increment_rate_limit_counter: success, value = self.cache_service.get(key)
IncrementGet(w) ==
    /\ limiter.request[w].pc = "increment"
    /\ limiter' = [limiter EXCEPT !.request[w] = [pc |-> "set", value |-> limiter.entry]]
    /\ UNCHANGED <<pureVars, cacheVars, metricsVars, schedVars, trackVars>>

\* self.cache_service.set(key, value + 1, expire=self.period), or 1 for a
\* missing entry; then response = await call_next(request)
IncrementSet(w) ==
    /\ limiter.request[w].pc = "set"
    /\ limiter' = [limiter EXCEPT !.entry = limiter.request[w].value + 1,
                                  !.forwarded = @ + 1,
                                  !.request[w] = IdleRequest]
    /\ UNCHANGED <<pureVars, cacheVars, metricsVars, schedVars, trackVars>>

InitLimiter ==
    /\ IdleCache
    /\ IdlePure

NextLimiter ==
    \E w \in Workers :
        \/ Arrive(w)
        \/ GetCounter(w)
        \/ IncrementGet(w)
        \/ IncrementSet(w)

SpecLimiter == InitLimiter /\ [][NextLimiter]_vars

(***************************************************************************)
(* track_endpoint_performance and PerformanceMiddleware.dispatch around    *)
(* concurrent invocations of the endpoints.  set_endpoint_active and       *)
(* set_endpoint_inactive hold the lock for their one statement, so each is *)
(* one step.                                                               *)
(***************************************************************************)
\* an invocation in progress: between its set_endpoint_active and its
\* set_endpoint_inactive
InProgress(c, name) ==
    /\ tracking.invocation[c].name = name
    /\ tracking.invocation[c].pc \in {"running", "record", "inactive"}

\* cls.set_endpoint_active(endpoint_name): active_endpoints.add, then func
\* is called
set_endpoint_active(c, name) ==
    /\ tracking.invocation[c].pc = "idle"
    /\ tracking.started < MaxInvocations
    /\ tracking' = [tracking EXCEPT !.active_endpoints = @ \cup {name},
                                    !.started = @ + 1,
                                    !.invocation[c] = [pc |-> "running", name |-> name]]
    /\ UNCHANGED <<pureVars, cacheVars, metricsVars, schedVars, limiterVars>>

\* func returns or raises: the finally block is entered
FuncEnds(c) ==
    /\ tracking.invocation[c].pc = "running"
    /\ tracking' = [tracking EXCEPT !.invocation[c].pc = "record"]
    /\ UNCHANGED <<pureVars, cacheVars, metricsVars, schedVars, limiterVars>>

\* finally: cls.record_endpoint_call(endpoint_name, path, response_time, error)
RecordEndpointCall(c) ==
    /\ tracking.invocation[c].pc = "record"
    /\ tracking' = [tracking EXCEPT !.invocation[c].pc = "inactive"]
    /\ UNCHANGED <<pureVars, cacheVars, metricsVars, schedVars, limiterVars>>

\* finally: cls.set_endpoint_inactive(endpoint_name): active_endpoints.discard
set_endpoint_inactive(c) ==
    /\ tracking.invocation[c].pc = "inactive"
    /\ tracking' = [tracking EXCEPT
                        !.active_endpoints = @ \ {tracking.invocation[c].name},
                        !.invocation[c] = IdleInvocation]
    /\ UNCHANGED <<pureVars, cacheVars, metricsVars, schedVars, limiterVars>>

InitTracking ==
    /\ IdleCache
    /\ IdlePure

NextTracking ==
    \E c \in Callers :
        \/ \E name \in MetricNames : set_endpoint_active(c, name)
        \/ FuncEnds(c)
        \/ RecordEndpointCall(c)
        \/ set_endpoint_inactive(c)

SpecTracking == InitTracking /\ [][NextTracking]_vars

(***************************************************************************)
(* get_cache_decorator on the attributes of the table and on attributes    *)
(* the table does not list.                                                *)
(***************************************************************************)
ListedAttributes == ONE_DAY_ATTRIBUTES \cup ONE_WEEK_ATTRIBUTES \cup THREE_MONTHS_ATTRIBUTES
                    \cup THIRTY_MINUTES_ATTRIBUTES
UnlistedAttributes == {"info", "history", "sustainability", "options"}

InitAttribute ==
    /\ step = "input"
    /\ arg \in {[attribute_name |-> a, invalidate_at_midnight |-> m] :
                    a \in ListedAttributes \cup UnlistedAttributes, m \in BOOLEAN}
    /\ res = Unset
    /\ res2 = Unset
    /\ IdleCache
    /\ IdleServices

GetCacheDecorator ==
    /\ step = "input"
    /\ res' = get_cache_decorator(arg.attribute_name, arg.invalidate_at_midnight)
    /\ step' = "selected"
    /\ UNCHANGED <<arg, res2>>
    /\ UNCHANGED <<cacheVars, serviceVars>>

NextAttribute == GetCacheDecorator

SpecAttribute == InitAttribute /\ [][NextAttribute]_vars

(***************************************************************************)
(* MetricsService.record_endpoint_call and get_summary called from several *)
(* threads.  metrics.calls += 1 reads the counter and writes it back in    *)
(* two steps.                                                              *)
(***************************************************************************)
RECURSIVE SumOfCalls(_)
\* sum(m.calls for m in endpoint_metrics.values())
SumOfCalls(names) ==
    IF names = {} THEN 0
    ELSE LET n == CHOOSE m \in names : TRUE
         IN (IF metrics[n].present THEN metrics[n].calls ELSE 0) + SumOfCalls(names \ {n})

InvocationsMade == invocations["get_ticker_history"] + invocations["get_market_data"]

StartRecord(t, name, error) ==
    /\ thread[t].pc = "idle"
    /\ InvocationsMade < MaxJobs
    /\ thread' = [thread EXCEPT ![t] =
                    [IdleThread EXCEPT !.pc = "lock", !.kind = "record", !.name = name,
                                       !.error = error, !.overlapped = (lock # 0)]]
    /\ invocations' = [invocations EXCEPT ![name] = @ + 1]
    /\ UNCHANGED <<metrics, lock>>
    /\ UNCHANGED <<pureVars, cacheVars, schedVars, limiterVars, trackVars>>

StartSummary(t) ==
    /\ thread[t].pc = "idle"
    /\ thread[t].kind # "summary"
    /\ thread' = [thread EXCEPT ![t] = [IdleThread EXCEPT !.pc = "lock", !.kind = "summary"]]
    /\ UNCHANGED <<metrics, lock, invocations>>
    /\ UNCHANGED <<pureVars, cacheVars, schedVars, limiterVars, trackVars>>

\* with cls._lock, entered without waiting for the lock to be free
Acquire_no_lock(t) ==
    /\ thread[t].pc = "lock"
    /\ lock' = t
    /\ thread' = [thread EXCEPT ![t].pc = IF thread[t].kind = "record" THEN "entry" ELSE "sum"]
    /\ UNCHANGED <<metrics, invocations>>
    /\ UNCHANGED <<pureVars, cacheVars, schedVars, limiterVars, trackVars>>

\* with cls._lock: the thread waits until no other thread holds the lock
Acquire(t) ==
    /\ thread[t].pc = "lock"
    /\ lock = 0
    /\ lock' = t
    /\ thread' = [thread EXCEPT ![t].pc = IF thread[t].kind = "record" THEN "entry" ELSE "sum"]
    /\ UNCHANGED <<metrics, invocations>>
    /\ UNCHANGED <<pureVars, cacheVars, schedVars, limiterVars, trackVars>>

\* if endpoint_name not in endpoint_metrics: endpoint_metrics[name] = EndpointMetrics(...)
CreateEntry(t) ==
    /\ thread[t].pc = "entry"
    /\ metrics' = IF metrics[thread[t].name].present THEN metrics
                  ELSE [metrics EXCEPT ![thread[t].name] = [NoMetrics EXCEPT !.present = TRUE]]
    /\ thread' = [thread EXCEPT ![t].pc = "load"]
    /\ UNCHANGED <<lock, invocations>>
    /\ UNCHANGED <<pureVars, cacheVars, schedVars, limiterVars, trackVars>>

\* metrics.calls += 1, the read
LoadCalls(t) ==
    /\ thread[t].pc = "load"
    /\ thread' = [thread EXCEPT ![t].pc = "store", ![t].calls = metrics[thread[t].name].calls]
    /\ UNCHANGED <<metrics, lock, invocations>>
    /\ UNCHANGED <<pureVars, cacheVars, schedVars, limiterVars, trackVars>>

\* metrics.calls += 1, the write
StoreCalls(t) ==
    /\ thread[t].pc = "store"
    /\ metrics' = [metrics EXCEPT ![thread[t].name].calls = thread[t].calls + 1]
    /\ thread' = [thread EXCEPT ![t].pc = IF thread[t].error THEN "error" ELSE "unlock"]
    /\ UNCHANGED <<lock, invocations>>
    /\ UNCHANGED <<pureVars, cacheVars, schedVars, limiterVars, trackVars>>

\* if error: metrics.errors += 1
CountError(t) ==
    /\ thread[t].pc = "error"
    /\ metrics' = [metrics EXCEPT ![thread[t].name].errors = @ + 1]
    /\ thread' = [thread EXCEPT ![t].pc = "unlock"]
    /\ UNCHANGED <<lock, invocations>>
    /\ UNCHANGED <<pureVars, cacheVars, schedVars, limiterVars, trackVars>>

\* get_summary: total_calls
Summarise(t) ==
    /\ thread[t].pc = "sum"
    /\ thread' = [thread EXCEPT ![t].pc = "unlock", ![t].seen = SumOfCalls(MetricNames)]
    /\ UNCHANGED <<metrics, lock, invocations>>
    /\ UNCHANGED <<pureVars, cacheVars, schedVars, limiterVars, trackVars>>

\* the end of the with block
Release(t) ==
    /\ thread[t].pc = "unlock"
    /\ lock' = IF lock = t THEN 0 ELSE lock
    /\ thread' = [thread EXCEPT ![t].pc = "idle"]
    /\ UNCHANGED <<metrics, invocations>>
    /\ UNCHANGED <<pureVars, cacheVars, schedVars, limiterVars, trackVars>>

InitMetrics == IdleCache /\ IdlePure

NextMetrics ==
    \E t \in Callers :
        \/ \E name \in MetricNames, error \in BOOLEAN : StartRecord(t, name, error)
        \/ StartSummary(t)
        \/ Acquire(t)
        \/ CreateEntry(t)
        \/ LoadCalls(t)
        \/ StoreCalls(t)
        \/ CountError(t)
        \/ Summarise(t)
        \/ Release(t)

SpecMetrics == InitMetrics /\ [][NextMetrics]_vars

(***************************************************************************)
(* generate_key on a call, and on a second call that repeats the first,    *)
(* writes its keyword arguments in another order, or changes one value.    *)
(***************************************************************************)
KeyPrefixes == {<<"get_info">>, <<"yfinance", ":", "get_info">>}
KeyValues == {Scalar("str", "AAPL"), Scalar("str", "1"), Scalar("int", "1")}
KeyNames == {"ticker", "period", "market"}
KeywordValues == {Scalar("str", "1"), Scalar("int", "1")}

\* the keyword arguments a caller can write: up to n pairs, no name twice
KeyKwargs(n) ==
    {kw \in SeqsUpTo([key : KeyNames, val : KeywordValues], n) :
        \A i, j \in DOMAIN kw : i # j => kw[i].key # kw[j].key}

\* the pairs of a call, whatever the order they were written in
Mapping(kwargs) == {kwargs[i] : i \in DOMAIN kwargs}

\* a sequence with at most one of its values replaced
OneChanged(args) ==
    {args} \cup {[args EXCEPT ![i] = v] : i \in DOMAIN args, v \in KeyValues}
OneValueChanged(kwargs) ==
    {kwargs} \cup {[kwargs EXCEPT ![i].val = v] : i \in DOMAIN kwargs, v \in KeywordValues}

InitKey ==
    /\ step = "input"
    /\ arg \in [prefix : KeyPrefixes, args : SeqsUpTo(KeyValues, MaxLen),
                kwargs : KeyKwargs(MaxLen)]
    /\ res = Unset
    /\ res2 = Unset
    /\ IdleCache
    /\ IdleServices

GenerateKey ==
    /\ step = "input"
    /\ res' = [key |-> generate_key(arg.prefix, arg.args, arg.kwargs),
               key_str |-> KeyString(arg.prefix, arg.args, arg.kwargs)]
    /\ step' = "keyed"
    /\ UNCHANGED <<arg, res2>>
    /\ UNCHANGED <<cacheVars, serviceVars>>

GenerateKeyAgain ==
    /\ step = "keyed"
    /\ \E order \in {kw \in KeyKwargs(MaxLen) : Mapping(kw) = Mapping(arg.kwargs)} :
       \E call \in ({arg.args} \X OneValueChanged(order))
                    \cup (OneChanged(arg.args) \X {order}) :
            res2' = [args |-> call[1], kwargs |-> call[2],
                     key |-> generate_key(arg.prefix, call[1], call[2]),
                     key_str |-> KeyString(arg.prefix, call[1], call[2])]
    /\ step' = "again"
    /\ UNCHANGED <<arg, res>>
    /\ UNCHANGED <<cacheVars, serviceVars>>

NextKey == GenerateKey \/ GenerateKeyAgain

SpecKey == InitKey /\ [][NextKey]_vars

(***************************************************************************)
(* Properties of the decorated endpoints.                                  *)
(***************************************************************************)
\* caller c started its call right after an undisturbed miss-and-store of the
\* same key, and nothing has touched the key or the server since
Following(c) ==
    /\ proc[c].kind = "call"
    /\ proc[c].follow.id # 0
    /\ fresh[proc[c].key] = proc[c].follow

SecondCallIsHit(c) ==
    /\ proc[c].invoked = 0
    /\ proc[c].pc = "done" => proc[c].ret = Return(proc[c].follow.val)

\* C1 as stated: with the store available, the second of two successive
\* calls with identical arguments does not invoke the wrapped operation and
\* returns what the first returned, at any UTC time of day, for every
\* duration, with and without invalidate_at_midnight, for every return value.
C1_Original == \A c \in Callers : Following(c) => SecondCallIsHit(c)

\* C1 amended: the same, provided the first call's result could be pickled
\* and was stored with a resolved expiration of at least one second, and the
\* second call looks the key up before that expiration has elapsed.
C1_SecondCallServedFromCache ==
    \A c \in Callers :
        ( /\ Following(c)
          /\ proc[c].follow.stored
          /\ proc[c].follow.ttl >= 1
          /\ proc[c].looked => proc[c].intime )
        => SecondCallIsHit(c)

\* C1 witness: a second call was served the None stored by the first
C1_Witness ==
    \E c \in Callers :
        /\ Following(c)
        /\ proc[c].follow.stored
        /\ proc[c].follow.val = None
        /\ proc[c].pc = "done"
        /\ proc[c].hit
        /\ proc[c].ret = Return(None)

\* C2: no exception of the store reaches the caller of a decorated
\* operation, and a call that found the store unavailable at any of its
\* steps invokes the wrapped operation exactly once and returns its outcome.
C2_UnavailableStoreIsBypassed ==
    \A c \in Callers :
        proc[c].kind = "call" =>
            /\ proc[c].ret.kind = "raise" => proc[c].ret = proc[c].inner
            /\ (proc[c].pc = "done" /\ proc[c].failed) =>
                    (proc[c].invoked = 1 /\ proc[c].ret = proc[c].inner)

\* C2 witness: the store was available at the wrapper's check and failed
\* later in the call, which returned the result of the wrapped operation
C2_Witness ==
    \E c \in Callers :
        /\ proc[c].kind = "call"
        /\ proc[c].pc = "done"
        /\ proc[c].failed
        /\ ~proc[c].isdirect
        /\ proc[c].invoked = 1
        /\ proc[c].ret.kind = "return"
        /\ proc[c].ret = proc[c].inner

\* C3: an error raised by the wrapped operation leaves the cache wrapper
\* unchanged, with the store available or not.
C3_WrappedErrorPropagates ==
    \A c \in Callers :
        (proc[c].kind = "call" /\ proc[c].pc = "done" /\ proc[c].inner.kind = "raise")
            => proc[c].ret = proc[c].inner

\* C3 witness: the wrapped operation raised on the cached path
C3_Witness ==
    \E c \in Callers :
        /\ proc[c].kind = "call"
        /\ proc[c].pc = "done"
        /\ ~proc[c].isdirect
        /\ proc[c].inner.kind = "raise"
        /\ proc[c].ret = proc[c].inner

\* C4: no operation of the cache store (construction, setup_cache,
\* is_available, get, set, delete, clear_namespace) raises on a backend
\* failure.
C4_NoBackendFailureEscapes == \A c \in Callers : proc[c].ret.kind # "raise"

\* C5: with invalidate_at_midnight, a value whose computation began before a
\* UTC midnight is never returned as a cache hit at or after that midnight.
C5_NoHitAcrossMidnight ==
    \A c \in Callers :
        (proc[c].kind = "call" /\ proc[c].ep.invalidate_at_midnight /\ proc[c].hit)
            => proc[c].hitDay = proc[c].beganDay

\* a SanitizedValue: null, boolean, finite number, string, list of them, or
\* mapping from strings to them
RECURSIVE SanitizedValue(_)
SanitizedValue(x) ==
    CASE x.k \in {"none", "bool", "int", "str"} -> TRUE
      [] x.k = "float" -> x.v \notin NonFinite
      [] x.k = "list" -> \A i \in 1..Len(x.items) : SanitizedValue(x.items[i])
      [] x.k = "dict" ->
            \A i \in 1..Len(x.items) :
                x.items[i].key.k = "str" /\ SanitizedValue(x.items[i].val)
      [] OTHER -> FALSE

\* C7: every value a decorated endpoint writes to the store is a
\* SanitizedValue, the output of the Sanitizer, in every decorator stacking.
C7_StoredValuesAreSanitized ==
    \A key \in KeySpace : store[key] # Absent => SanitizedValue(loads(store[key].bytes))

\* the first UTC 00:00:00 strictly after t
NextUtcMidnight(t) ==
    CHOOSE m \in {d * DayTicks : d \in 1..(MaxDays + 1)} : m > t /\ m - DayTicks <= t

\* n whole seconds, and not n + 1, fit between t and m
WholeSecondsBetween(n, t, m) ==
    /\ t + n * TicksPerSecond <= m
    /\ m < t + (n + 1) * TicksPerSecond

\* C6: the expiration passed to the store is the base TTL without
\* invalidate_at_midnight, and min(base TTL, whole seconds until the next
\* UTC 00:00:00) with it: 10 at 23:59:50 and 86399 at 00:00:01 for 86400.
C6_ExpirationIsClampedTtl ==
    step = "resolved" =>
        LET m == NextUtcMidnight(arg.now)
        IN /\ ~arg.invalidate_at_midnight => res = arg.expire
           /\ arg.invalidate_at_midnight =>
                \/ res <= arg.expire /\ WholeSecondsBetween(res, arg.now, m)
                \/ res = arg.expire /\ arg.now + arg.expire * TicksPerSecond <= m
           /\ (arg.invalidate_at_midnight /\ arg.expire = 86400) =>
                /\ arg.now = Clock(0, 23, 59, 50) => res = 10
                /\ arg.now = Clock(1, 0, 0, 1) => res = 86399

\* C6 witness: the clamp was applied at 23:59:50 and at 00:00:01, and a base
\* TTL shorter than the time to midnight was kept
C6_Witness ==
    /\ step = "resolved"
    /\ arg.invalidate_at_midnight
    /\ arg.expire = CACHE_1_DAY
    /\ arg.now = Clock(0, 23, 59, 50)
    /\ res = 10

\* C10: an empty result raises TickerNotFoundError when some keyword
\* argument named ticker, market, sector, industry or query has a non-empty
\* value, and gives [] when none of these names is present.
C10_IdentifiedEmptyResultRaises ==
    (step = "cleaned" /\ arg.called.kind = "return" /\ arg.called.val \in EmptyResults) =>
        /\ (\E n \in IdentifierNames : Has(arg.kwargs, n) /\ arg.kwargs[n] # "")
                => (res.kind = "raise" /\ res.type = "TickerNotFoundError")
        /\ (\A n \in IdentifierNames : ~Has(arg.kwargs, n)) => res = Return(EmptyList)

SameArguments == res2.args = arg.args /\ Mapping(res2.kwargs) = Mapping(arg.kwargs)

\* C13: generate_key gives the same key on a repeated call and on a call
\* that writes the same keyword arguments in any other order.
C13_KeyIsDeterministicAndOrderFree ==
    (step = "again" /\ SameArguments) => (res2.key = res.key /\ res2.key_str = res.key_str)

\* C13 witness: two keyword arguments written in the other order gave the
\* same key
C13_Witness ==
    /\ step = "again"
    /\ SameArguments
    /\ Len(arg.kwargs) = 2
    /\ res2.kwargs # arg.kwargs
    /\ res2.key = res.key

\* C14: for a fixed prefix, a call that differs from another in the value
\* of one positional or keyword argument hashes another string and gets
\* another key.
C14_ChangedValueChangesKey ==
    (step = "again" /\ ~SameArguments) => (res2.key_str # res.key_str /\ res2.key # res.key)

\* C14 witness: the string '1' replaced by the int 1 in a positional
\* argument gave another key
C14_Witness ==
    /\ step = "again"
    /\ arg.args = <<Scalar("str", "1")>>
    /\ res2.args = <<Scalar("int", "1")>>
    /\ Mapping(res2.kwargs) = Mapping(arg.kwargs)
    /\ res2.key # res.key

\* key was generated under namespace: it is generate_key(namespace, ...)
GeneratedUnder(key, namespace) ==
    \E kwargs \in CallKwargs : key = generate_key(namespace, <<>>, ItemsOf(kwargs))

\* C12: the step of clear_namespace(n) that deletes, with the store up,
\* removes exactly the entries whose keys were generated under n, returns
\* their number, and leaves the entries of every other namespace unchanged.
C12_ClearRemovesExactlyNamespace ==
    [][\A c \in Callers :
        (proc[c].pc = "clear_del" /\ proc'[c].pc = "done" /\ ~proc'[c].failed) =>
            LET n == proc[c].ns
                under == {key \in KeySpace : GeneratedUnder(key, n)}
            IN /\ \A key \in under : store'[key] = Absent
               /\ \A key \in KeySpace \ under : store'[key] = store[key]
               /\ proc'[c].ret =
                     Return(PyInt(Cardinality({key \in under : Alive(store, key, clock)})))
      ]_vars

\* the step of CacheService.get(key) that returns finds an entry it can read
Readable(c) ==
    /\ proc[c].pc = "get_cmd"
    /\ backend = "up"
    /\ Alive(store, proc[c].key, clock)
    /\ Loadable(store[proc[c].key].bytes)

\* C15: CacheService.get(key) never raises; it returns (False, None) when
\* the key is absent, the backend unavailable or the bytes cannot be
\* deserialized, and else (True, v) with v the value in the store, None
\* included, which a call of set that succeeded has written.
C15_GetReportsLastSuccessfulSet ==
    [][\A c \in Callers :
        (proc[c].kind = "get" /\ proc[c].pc \in {"get_ping", "get_cmd"}
            /\ proc'[c].pc = "done") =>
            IF Readable(c)
            THEN /\ proc'[c].ret =
                        Return(PyTuple(<<PyBool(TRUE), store[proc[c].key].bytes.of>>))
                 /\ store[proc[c].key].set # "failed"
            ELSE proc'[c].ret = Return(PyTuple(<<PyBool(FALSE), None>>))
      ]_vars

\* C16: when the calls of record_endpoint_call have returned, the calls
\* counter of each endpoint equals the number of calls made for it, in
\* every interleaving of the threads, get_summary and the creation of the
\* entry included.
C16_NoLostUpdate ==
    (\A t \in Callers : thread[t].pc = "idle") =>
        \A name \in MetricNames : metrics[name].calls = invocations[name]

\* C16 witness: two calls for one endpoint, one of them made while another
\* thread held the lock, have returned and the counter is 2
C16_Witness ==
    /\ \A t \in Callers : thread[t].pc = "idle"
    /\ \E t \in Callers :
        /\ thread[t].kind = "record"
        /\ thread[t].overlapped
        /\ invocations[thread[t].name] = 2
        /\ metrics[thread[t].name].calls = 2

\* C17: a call of a decorated endpoint that has ended, as a hit or after a
\* miss, has made exactly one call of record_endpoint_call, on every
\* stacking of the decorators.
C17_OneRecordPerCall ==
    \A c \in Callers :
        (proc[c].kind = "call" /\ proc[c].pc = "done") => proc[c].recorded = 1

\* C19: with the server reachable, a decorated call takes the cached path
\* (it goes on to look its key up), and is_available() returns True once
\* setup_cache() has connected, whether or not CacheService() has been
\* constructed.
C19_ConnectsAtFirstUseOrSetup ==
    [][\A c \in Callers :
        /\ (proc[c].kind = "call" /\ proc[c].pc = "avail" /\ proc'[c].pc # "avail"
                /\ backend = "up")
              => (proc'[c].pc = "get_ping" /\ ~proc'[c].isdirect)
        /\ (proc[c].pc = "idle" /\ proc'[c].kind = "is_available" /\ backend = "up"
                /\ core_redis_client = "client")
              => proc'[c].ret = Return(PyBool(TRUE))
      ]_vars

\* C20: a call that looked its key up and missed invokes the wrapped
\* operation itself, at once and exactly once, whatever other calls with the
\* same key are doing: it neither waits for a computation in progress nor
\* reuses its result.
C20_MissesAreNotDeduplicated ==
    \A c \in Callers :
        (proc[c].kind = "call" /\ proc[c].looked /\ ~proc[c].hit) =>
            /\ proc[c].pc \in {"running", "set_ping", "set_cmd", "expire_cmd", "done"}
            /\ proc[c].invoked = 1

\* C20 witness: two calls with the same key have both looked it up and
\* missed, nothing is stored yet, and both are inside the wrapped operation
C20_Witness ==
    \E c, d \in Callers :
        /\ c # d
        /\ proc[c].kind = "call" /\ proc[d].kind = "call"
        /\ proc[c].key = proc[d].key
        /\ proc[c].looked /\ proc[d].looked
        /\ store[proc[c].key] = Absent
        /\ proc[c].pc = "running" /\ proc[d].pc = "running"
        /\ proc[c].invoked = 1 /\ proc[d].invoked = 1

\* C21: a finished request to an endpoint a factory created with
\* attribute_name has gone through the decorators of the factory: it was
\* recorded once, an error it raises is an API error, the data it returns
\* is cleaned, and with the store available it looked its key up, so that a
\* repeated request is a cache hit.
C21_AttributeEndpointIsDecorated ==
    \A c \in Callers :
        (proc[c].kind = "call" /\ proc[c].ep.stack = "implementation"
            /\ proc[c].pc = "done") =>
            /\ proc[c].recorded = 1
            /\ proc[c].ret.kind = "raise" =>
                    proc[c].ret.type \in {"TickerNotFoundError", "YFinanceError"}
            /\ proc[c].ret.kind = "return" => SanitizedValue(proc[c].ret.val)
            /\ is_available(redis_client, backend) => (proc[c].looked \/ proc[c].hit)

\* C22: get_cache_decorator returns the decorator of the duration the table
\* lists for the attribute (3 months for basic_info, 1 week for calendar,
\* 30 minutes for market_status, 1 day for actions), and the 1-day decorator
\* for an attribute the table does not list.
C22_AttributeGetsItsListedDuration ==
    step = "selected" =>
        /\ res.cached
        /\ res.expire =
              CASE arg.attribute_name \in THREE_MONTHS_ATTRIBUTES -> 7776000
                [] arg.attribute_name \in ONE_WEEK_ATTRIBUTES -> 604800
                [] arg.attribute_name \in THIRTY_MINUTES_ATTRIBUTES -> 1800
                [] OTHER -> 86400

C25_RunningOnlyWhileRunInProgress ==
    \A t \in TaskIds :
        tasks[t].running =>
            /\ scheduler.task = t
            /\ scheduler.pc \in {"attempt", "retry_sleep", "on_error", "finish"}

\* C26: the loop starts no execution of a task for which disable_task or
\* unschedule has returned True (and enable_task has not since).
C26_NoRunAfterDisable ==
    [][\A t \in TaskIds : tasks'[t].runs > tasks[t].runs => ~tasks[t].banned]_vars

\* C24: while the client's counter entry is alive, at most `requests`
\* requests of the client are forwarded to the application, and every
\* further one is rejected, in every interleaving of the workers.
C24_AtMostRequestsForwarded ==
    /\ limiter.forwarded <= RATE_LIMIT_REQUESTS
    /\ limiter.rejected > 0 => limiter.entry >= RATE_LIMIT_REQUESTS

\* C27: after CacheService.set with an expire has returned, the store holds
\* no entry written by that call without an expiration of at most expire
\* seconds, with nx and when the backend fails before EXPIRE.
C27_SetLeavesNoEntryWithoutExpiration ==
    [][\A c \in Callers :
        (proc[c].kind = "set" /\ proc[c].expire # NoExpiry
            /\ proc[c].pc \in {"set_cmd", "expire_cmd"} /\ proc'[c].pc = "done"
            /\ store'[proc[c].key] # Absent /\ store'[proc[c].key].by = proc[c].id) =>
            /\ store'[proc[c].key].deadline # NoExpiry
            /\ store'[proc[c].key].deadline <= clock' + proc[c].expire * TicksPerSecond
      ]_vars

\* C28: a call of a cache-decorated operation whose wrapped operation raises
\* writes nothing: the step on which the operation raises ends the call, and
\* no step of that call changes the store or has left an entry of its own.
C28_FailedCallWritesNothing ==
    [][\A c \in Callers :
        (proc[c].kind = "call" /\ proc'[c].kind = "call" /\ proc'[c] # proc[c]
            /\ proc'[c].inner.kind = "raise") =>
            /\ store' = store
            /\ proc'[c].pc = "done"
            /\ \A k \in DOMAIN store : store[k] # Absent => store[k].by # proc[c].id
      ]_vars

\* a call on the cached path has failed while the store holds an entry for
\* its key
C28_Witness ==
    \E c \in Callers :
        /\ proc[c].kind = "call" /\ proc[c].pc = "done"
        /\ proc[c].looked /\ ~proc[c].isdirect
        /\ proc[c].inner.kind = "raise"
        /\ proc[c].key # NoKey /\ store[proc[c].key] # Absent

\* C29: an endpoint name is in active_endpoints exactly while at least one
\* invocation of that endpoint is in progress, in every interleaving of
\* concurrent invocations of the same endpoint.
C29_ActiveWhileInProgress ==
    \A name \in MetricNames :
        name \in tracking.active_endpoints <=> \E c \in Callers : InProgress(c, name)

\* the seconds the duration table gives a tag: the 1-day value for a tag
\* that is not in the table
DurationTable(tag) ==
    CASE tag = "30_minutes" -> 1800
      [] tag = "1_day" -> 86400
      [] tag = "1_week" -> 604800
      [] tag = "1_month" -> 2592000
      [] tag = "3_months" -> 7776000
      [] OTHER -> 86400

\* C18: whatever factory takes the duration tag, the callable it returns is
\* cached, for the seconds the table gives the tag, and for the 1-day value
\* when the tag is not in the table.
C18_TagGivesItsDuration ==
    step = "decorated" =>
        /\ res.cached
        /\ res.expire = DurationTable(arg.cache_duration)

\* C8: the output of process_yfinance_output contains no NaN and no
\* +/-Infinity, native or boxed, for every input of the recognised kinds.
C8_NoNonFiniteInOutput == step \in {"once", "twice"} => ~HasNonFinite(res)

\* C9: process_yfinance_output is idempotent: applying it to its own output
\* gives that output again.
C9_Idempotent == step = "twice" => res2 = res

====
